---- MODULE Spec2Model ----
(***************************************************************************)
(* A model of the swarm-ir compiler core: numeric lowering (numerics.rs),  *)
(* the stack/type verifier (verify.rs), the control-flow verifier          *)
(* (cf_verify.rs) and the structured-control part of the emitter (emit.rs).*)
(*                                                                         *)
(* Each component has its own specification over its own variables; the    *)
(* variables of the other components stay at their idle values.            *)
(***************************************************************************)
EXTENDS Integers, Sequences, FiniteSets, TLC

VARIABLES
    \* ---- numeric lowering (numerics.rs) and the execution of its output
    nkind,      \* the IR instruction kind being lowered (a record)
    nbws,       \* the "bws" metadata of the instruction (operand / source type)
    nargs,      \* the operand values, as 32-bit words, first pushed first
    ncode,      \* the emitted target instruction sequence
    npc,        \* index of the next target instruction to execute
    nstack,     \* the target operand stack (32-bit words)
    nphase      \* "input" | "exec" | "done"

numVars == <<nkind, nbws, nargs, ncode, npc, nstack, nphase>>

VARIABLES
    \* ---- the stack/type verifier (verify.rs) on one block of a function
    vret,       \* function.ret_tys(): the declared returns of the function
    vblockret,  \* block.returns(): the declared returns of the block
    vbody,      \* the instructions of block.body read so far
    vstack,     \* `stack`: the simulated operand stack (types, top last)
    vinfo,      \* out_info: per instruction index, the metadata to attach
    vres,       \* "Running" | "Ok" | "Err" | "Panic" | "idle"
    verr,       \* the VerifyError variant when vres = "Err"; for "Ok", how
                \* the block ended ("end" of body or "Fail")
    vfunc       \* the function around the block: [blocks, locals, argc]

verVars == <<vret, vblockret, vbody, vstack, vinfo, vres, verr, vfunc>>

VARIABLES
    \* ---- the control-flow verifier (cf_verify.rs) and the emitter's
    \* ---- structured-control lowering (emit.rs) on one function
    ctag,       \* block id -> BlockTag, "?" while nothing has read the tag
    cbody,      \* block id -> the control instructions of the block read so far
    cphase,     \* where the pipeline stands on this function
    cerr,       \* the ControlFlowVerifierError variant when cphase = "Err"
    ccur,       \* phase A: the block whose body is being walked, or Unset
    cscan,      \* phase A: the blocks whose body has been walked
    cparents,   \* `block_parents`: block id -> parent id, or Unset
    cdone,      \* phase B: the blocks already handled
    cwalk,      \* phase B: [block, cur, dist] of the walk up the parents
    cilp,       \* `innermost_loop_distances`: block id -> distance, or Unset
    cmeta,      \* block.meta: block id -> [parent, innermost_loop_distance]
    cout        \* the target instructions emitted for the function

cfVars == <<ctag, cbody, cphase, cerr, ccur, cscan, cparents, cdone, cwalk,
            cilp, cmeta, cout>>

VARIABLES
    \* ---- the struct layout algorithm (abi.rs) on one list of field types
    afields,    \* struct_fields
    aoffsets,   \* field_start_offsets
    asize,      \* size
    aalign,     \* align
    aphase      \* "loop" | "done" | "idle"

abiVars == <<afields, aoffsets, asize, aalign, aphase>>

VARIABLES
    \* ---- the static memory and its compilation (staticmem.rs)
    sitems,     \* StaticMemory.items
    saddresses, \* addresses: item index i is at saddresses[i + 1]
    scur,       \* curr_address
    sbuf,       \* the bytes of the image, byte p at sbuf[p + 1]
    sphase      \* "build", "addr", "write", "done"

smVars == <<sitems, saddresses, scur, sbuf, sphase>>

VARIABLES
    \* ---- the module's functions and globals (module.rs) and what the
    \* ---- emitter makes of them (emit.rs)
    mfuncs,     \* Module.functions in iteration order: [name, kind, idx]
    mglobals,   \* Module.globals in iteration order: [name, ty, idx]
    mres,       \* how the last call on the module ended: "ok" or "panic"
    mcalls,     \* the number of new_int_global / new_float_global calls
    ephase,     \* "build", "funcs", "end", "done"
    epos,       \* do_pass: the number of functions passed
    eimports,   \* the import section: names, in order
    efuncsec,   \* the function section: names of the compiled functions
    eexports,   \* the export section: <<name, function index>>
    etable,     \* the table and its element segment
    eglobals,   \* the global section: names of the globals emitted, in order
    ecode       \* the instruction compiled last: [op, n, name]

modVars == <<mfuncs, mglobals, mres, mcalls, ephase, epos, eimports, efuncsec,
             eexports, etable, eglobals, ecode>>

VARIABLES
    \* ---- the correction pass (correct.rs) on one function
    kfunc,      \* the function: [blocks: block -> [tag, ty, body], locals]
    korig,      \* the function as it was when the pass started
    kdone,      \* the blocks mutate_function has been through
    kfirst,     \* the function after the first run of the pass, <<>> before
    kphase      \* "build", "mutate", "done"

corVars == <<kfunc, korig, kdone, kfirst, kphase>>

VARIABLES
    \* ---- the instruction rewrite pass (passes/instr_rewrite.rs)
    rwfuncs,    \* function idx -> block id -> body
    rworig,     \* the functions before the pass
    rwplan,     \* the modifications given to new: block id -> changes
    rwmods,     \* self.modifications of the constructed pass
    rwdone,     \* the blocks of the plan mutate_function has been through
    rwphase     \* "plan", "new_err", "ready", "target", "visit_err",
                \* "visited", "panic", "done"

rwVars == <<rwfuncs, rworig, rwplan, rwmods, rwdone, rwphase>>

VARIABLES
    \* ---- a metadata channel (metadata.rs)
    mtlist,     \* the linked list of nodes [key, ty, val], the head first
    mtlast,     \* key -> what the latest insert under the key gave, <<>> if none
    mtkey,      \* the key of the latest insert, <<>> if none
    mtret       \* the latest retrieve: [name, ty, ret], <<>> if none

metaVars == <<mtlist, mtlast, mtkey, mtret>>

VARIABLES
    \* ---- a function builder (builder.rs)
    bblocks,    \* self.blocks: block id -> [returns, instrs, tag]
    bnext,      \* self.next_block_id
    bcur,       \* self.current_block
    blocals,    \* self.locals
    bargc,      \* self.argc
    bret,       \* self.ret
    bcalls,     \* the calls made on the builder, in order
    bmod,       \* the functions of the module finish is given
    bphase      \* "building", "finished"

bldVars == <<bblocks, bnext, bcur, blocals, bargc, bret, bcalls, bmod, bphase>>

\* the components other than the numeric emitter, the two verifiers and the
\* emitter's control flow
extVars == <<abiVars, smVars, modVars, corVars, rwVars, metaVars, bldVars>>

vars == <<numVars, verVars, cfVars, extVars>>

\* what each component leaves alone
notNum == <<verVars, cfVars, extVars>>
notVer == <<numVars, cfVars, extVars>>
notCf  == <<numVars, verVars, extVars>>
notAbi == <<numVars, verVars, cfVars, smVars, modVars, corVars, rwVars,
           metaVars, bldVars>>

notSm == <<numVars, verVars, cfVars, abiVars, modVars, corVars, rwVars,
           metaVars, bldVars>>

notMod == <<numVars, verVars, cfVars, abiVars, smVars, corVars, rwVars,
           metaVars, bldVars>>

notCor == <<numVars, verVars, cfVars, abiVars, smVars, modVars, rwVars,
           metaVars, bldVars>>

notMeta == <<numVars, verVars, cfVars, abiVars, smVars, modVars, corVars,
            rwVars, bldVars>>

notBld == <<numVars, verVars, cfVars, abiVars, smVars, modVars, corVars,
           rwVars, metaVars>>

notRw == <<numVars, verVars, cfVars, abiVars, smVars, modVars, corVars,
           metaVars, bldVars>>

\* the idle values of each component's variables
NumIdle ==
    /\ nkind = "None" /\ nbws = "None" /\ nargs = <<>> /\ ncode = <<>>
    /\ npc = 0 /\ nstack = <<>> /\ nphase = "idle"

VerIdle ==
    /\ vret = <<>> /\ vblockret = <<>> /\ vbody = <<>> /\ vstack = <<>>
    /\ vinfo = <<>> /\ vres = "idle" /\ verr = "" /\ vfunc = <<>>

AbiIdle ==
    /\ afields = <<>> /\ aoffsets = <<>> /\ asize = 0 /\ aalign = 0 /\ aphase = "idle"

SmIdle ==
    /\ sitems = <<>> /\ saddresses = <<>> /\ scur = 0 /\ sbuf = <<>> /\ sphase = "idle"

ModIdle ==
    /\ mfuncs = <<>> /\ mglobals = <<>> /\ mres = "" /\ mcalls = 0
    /\ ephase = "idle" /\ epos = 0 /\ eimports = <<>> /\ efuncsec = <<>>
    /\ eexports = <<>> /\ etable = <<>> /\ eglobals = <<>> /\ ecode = <<>>

CorIdle ==
    kfunc = <<>> /\ korig = <<>> /\ kdone = {} /\ kfirst = <<>> /\ kphase = "idle"

RwIdle ==
    /\ rwfuncs = <<>> /\ rworig = <<>> /\ rwplan = <<>> /\ rwmods = <<>>
    /\ rwdone = {} /\ rwphase = "idle"

MetaIdle == mtlist = <<>> /\ mtlast = <<>> /\ mtkey = <<>> /\ mtret = <<>>

BldIdle ==
    /\ bblocks = <<>> /\ bnext = 0 /\ bcur = 0 /\ blocals = <<>> /\ bargc = 0
    /\ bret = <<>> /\ bcalls = <<>> /\ bmod = <<>> /\ bphase = "idle"

ExtIdle == AbiIdle /\ SmIdle /\ ModIdle /\ CorIdle /\ RwIdle /\ MetaIdle /\ BldIdle

CfIdle ==
    /\ ctag = <<>> /\ cbody = <<>> /\ cphase = "idle" /\ cerr = ""
    /\ ccur = 0 /\ cscan = <<>> /\ cparents = <<>> /\ cdone = {}
    /\ cwalk = <<>> /\ cilp = <<>> /\ cmeta = <<>> /\ cout = <<>>

(***************************************************************************)
(* 32-bit words.  TLC integers are 32-bit signed, so a word is kept as two *)
(* 16-bit limbs <<hi, lo>>; every operation below is wasm's i32 operation  *)
(* modulo 2^32.                                                            *)
(***************************************************************************)
RECURSIVE Pow2(_)
Pow2(n) == IF n = 0 THEN 1 ELSE 2 * Pow2(n - 1)

Limb == Pow2(16)

Hi(w) == w[1]
Lo(w) == w[2]

\* x * y modulo 2^16 for 16-bit x, y, without leaving 31 bits
MulLow16(x, y) ==
    LET x0 == x % 256
        x1 == x \div 256
    IN  (x0 * y + ((x1 * y) % 256) * 256) % Limb

\* the full 32-bit product of two 16-bit limbs, as a word
MulFull16(x, y) ==
    LET x0 == x % 256
        x1 == x \div 256
        q  == (x1 * y) \div 256
        r  == (x1 * y) % 256
        l  == r * 256 + x0 * y
    IN  <<(q + l \div Limb) % Limb, l % Limb>>

I32AddW(a, b) ==
    LET l == Lo(a) + Lo(b)
    IN  <<(Hi(a) + Hi(b) + l \div Limb) % Limb, l % Limb>>

I32SubW(a, b) ==
    LET l == Lo(a) - Lo(b)
        borrow == IF l < 0 THEN 1 ELSE 0
    IN  <<(Hi(a) - Hi(b) - borrow + 2 * Limb) % Limb, (l + Limb) % Limb>>

I32MulW(a, b) ==
    LET p == MulFull16(Lo(a), Lo(b))
        cross == (MulLow16(Hi(a), Lo(b)) + MulLow16(Lo(a), Hi(b))) % Limb
    IN  <<(Hi(p) + cross) % Limb, Lo(p)>>

RECURSIVE And16(_, _, _)
And16(x, y, bits) ==
    IF bits = 0 THEN 0
    ELSE (IF x % 2 = 1 /\ y % 2 = 1 THEN 1 ELSE 0)
         + 2 * And16(x \div 2, y \div 2, bits - 1)

I32AndW(a, b) == <<And16(Hi(a), Hi(b), 16), And16(Lo(a), Lo(b), 16)>>

\* shift counts are taken modulo 32, as in wasm
I32ShlW(a, n) ==
    LET k == n % 32
    IN  IF k >= 16
        THEN <<(Lo(a) * Pow2(k - 16)) % Limb, 0>>
        ELSE <<(Hi(a) * Pow2(k) + (Lo(a) * Pow2(k)) \div Limb) % Limb,
               (Lo(a) * Pow2(k)) % Limb>>

I32ShrSW(a, n) ==
    LET k    == n % 32
        neg  == Hi(a) >= 32768
    IN  IF k >= 16
        THEN LET h == Hi(a) \div Pow2(k - 16)
                 fill == IF neg THEN Limb - Pow2(16 - (k - 16)) ELSE 0
             IN  <<IF neg THEN Limb - 1 ELSE 0, h + fill>>
        ELSE LET fillh == IF neg THEN Limb - Pow2(16 - k) ELSE 0
             IN  <<Hi(a) \div Pow2(k) + fillh,
                   Lo(a) \div Pow2(k) + (Hi(a) % Pow2(k)) * Pow2(16 - k)>>

\* the word of an i32 constant operand 0 <= n < 2^31
ConstW(n) == <<n \div Limb, n % Limb>>

(***************************************************************************)
(* Types (ty.rs) and the width-and-sign descriptor (numerics.rs).          *)
(***************************************************************************)
IntTypes == {"Int8", "UInt8", "Int16", "UInt16", "Int32", "UInt32"}

is_int(t) == t \in IntTypes
is_float(t) == t = "Float32"
is_ptr(t) == t = "Ptr"

BitWidthSign == {"S32", "U32", "S16", "U16", "S8", "U8"}

is_unsigned(bws) == bws \in {"U32", "U16", "U8"}

\* None stands for Rust's Option::None
None == "None"

type_to_bws(t) ==
    CASE t = "Int32"  -> "S32"
      [] t = "UInt32" -> "U32"
      [] t = "Int16"  -> "S16"
      [] t = "UInt16" -> "U16"
      [] t = "Int8"   -> "S8"
      [] t = "UInt8"  -> "U8"
      [] OTHER        -> None

(***************************************************************************)
(* Target instructions (wasm_encoder::Instruction), as records.            *)
(***************************************************************************)
WI(op) == [op |-> op, n |-> 0]
WIn(op, n) == [op |-> op, n |-> n]

\* numerics.rs: the `and` idiom
and(inner, n) == <<inner, WIn("I32Const", n), WI("I32And")>>

\* numerics.rs: the `shift` idiom
shift(inner, n) ==
    <<inner, WIn("I32Const", n), WI("I32Shl"), WIn("I32Const", n), WI("I32ShrS")>>

\* numerics.rs: the IAdd | ISub | IMul arm of emit_numeric_instr
EmitArith(kind, bws) ==
    LET core == CASE kind.k = "IAdd" -> WI("I32Add")
                  [] kind.k = "ISub" -> WI("I32Sub")
                  [] kind.k = "IMul" -> WI("I32Mul")
    IN  CASE bws \in {"S32", "U32"} -> <<core>>
          [] bws = "U16" -> and(core, 65536)
          [] bws = "S16" -> shift(core, 16)
          [] bws = "U8"  -> and(core, 255)
          [] bws = "S8"  -> shift(core, 24)

\* numerics.rs: the IDiv arm
EmitIDiv(bws) ==
    CASE bws \in {"U32", "U16", "U8"} -> <<WI("I32DivU")>>
      [] bws = "S32" -> <<WI("I32DivS")>>
      [] bws = "S16" -> shift(WI("I32DivS"), 16)
      [] bws = "S8"  -> shift(WI("I32DivS"), 24)

\* numerics.rs: the Itof and Ftoi arms
EmitItof(bws) ==
    IF is_unsigned(bws) THEN <<WI("F32ConvertI32U")>> ELSE <<WI("F32ConvertI32S")>>

EmitFtoi(bws, use_saturating_ftoi) ==
    IF is_unsigned(bws)
    THEN IF use_saturating_ftoi THEN <<WI("I32TruncSatF32U")>> ELSE <<WI("I32TruncF32U")>>
    ELSE IF use_saturating_ftoi THEN <<WI("I32TruncSatF32S")>> ELSE <<WI("I32TruncF32S")>>

\* numerics.rs: the ICmp arm
EmitICmp(cmp, bws) ==
    CASE cmp = "Eq" -> <<WI("I32Eq")>>
      [] cmp = "Ne" -> <<WI("I32Neq")>>
      [] cmp = "Lt" -> IF is_unsigned(bws) THEN <<WI("I32LtU")>> ELSE <<WI("I32LtS")>>
      [] cmp = "Le" -> IF is_unsigned(bws) THEN <<WI("I32LeU")>> ELSE <<WI("I32LeS")>>
      [] cmp = "Gt" -> IF is_unsigned(bws) THEN <<WI("I32GtU")>> ELSE <<WI("I32GtS")>>
      [] cmp = "Ge" -> IF is_unsigned(bws) THEN <<WI("I32GeU")>> ELSE <<WI("I32GeS")>>

\* numerics.rs: the IConv arm; bws is the source descriptor, target the
\* instruction's explicit target type
EmitIConv(target, bws) ==
    LET tb == type_to_bws(target)
        shift16 == <<WIn("I32Const", 16), WI("I32Shl"), WIn("I32Const", 16), WI("I32ShrS")>>
        shift24 == <<WIn("I32Const", 24), WI("I32Shl"), WIn("I32Const", 24), WI("I32ShrS")>>
    IN  CASE tb \in {"S32", "U32"} -> <<>>
          [] tb = "S16" -> IF bws \in {"U16", "U32", "S32"} THEN shift16 ELSE <<>>
          [] tb = "U16" -> IF bws \in {"S8", "S16", "U32", "S32"}
                           THEN <<WIn("I32Const", 65536), WI("I32And")>>
                           ELSE <<>>
          [] tb = "S8"  -> IF bws \in {"S32", "U32", "S16", "U16", "U8"} THEN shift24 ELSE <<>>
          [] tb = "U8"  -> IF bws \in {"S32", "U32", "S16", "U16", "S8"}
                           THEN <<WIn("I32Const", 255), WI("I32And")>>
                           ELSE <<>>

\* numerics.rs: emit_numeric_instr (the arms that need no memory argument)
emit_numeric_instr(kind, bws, use_saturating_ftoi) ==
    CASE kind.k \in {"IAdd", "ISub", "IMul"} -> EmitArith(kind, bws)
      [] kind.k = "IDiv"  -> EmitIDiv(bws)
      [] kind.k = "Itof"  -> EmitItof(bws)
      [] kind.k = "Ftoi"  -> EmitFtoi(bws, use_saturating_ftoi)
      [] kind.k = "ICmp"  -> EmitICmp(kind.cmp, bws)
      [] kind.k = "IConv" -> EmitIConv(kind.target, bws)

(***************************************************************************)
(* Values of the integer types as they sit on the target stack: a signed   *)
(* narrow value is kept sign-extended, an unsigned one zero-extended.      *)
(***************************************************************************)
Width(bws) == CASE bws \in {"S32", "U32"} -> 32
                [] bws \in {"S16", "U16"} -> 16
                [] bws \in {"S8", "U8"}   -> 8

\* the word holding the low `w` bits `bits` extended as `bws` demands
Extend(bws, bits) ==
    LET w == Width(bws)
    IN  IF w = 32 THEN bits
        ELSE IF ~is_unsigned(bws) /\ Lo(bits) >= Pow2(w - 1)
             THEN <<Limb - 1, Lo(bits) + (Limb - Pow2(w))>>
             ELSE <<0, Lo(bits)>>

\* the low Width(bws) bits of a word, as a word
LowBits(bws, w) ==
    IF Width(bws) = 32 THEN w ELSE <<0, Lo(w) % Pow2(Width(bws))>>

\* bit patterns at the edges of each width
Patterns8  == {0, 1, 2, 127, 128, 255}
Patterns16 == {0, 1, 255, 256, 32767, 32768, 65535}
Patterns32 == {<<0, 0>>, <<0, 1>>, <<0, 65535>>, <<1, 0>>, <<32767, 65535>>,
               <<32768, 0>>, <<65535, 65535>>}

\* sample values in the range of the type described by bws
Samples(bws) ==
    CASE Width(bws) = 8  -> {Extend(bws, <<0, p>>) : p \in Patterns8}
      [] Width(bws) = 16 -> {Extend(bws, <<0, p>>) : p \in Patterns16}
      [] OTHER           -> Patterns32

InRange(bws, w) == w = Extend(bws, LowBits(bws, w))

(***************************************************************************)
(* Numeric lowering followed by execution of the emitted sequence.         *)
(***************************************************************************)
ArithKinds == {[k |-> "IAdd"], [k |-> "ISub"], [k |-> "IMul"]}
IConvKinds == {[k |-> "IConv", target |-> t] : t \in IntTypes}

NumInit ==
    /\ VerIdle /\ CfIdle /\ ExtIdle
    /\ nphase = "input"
    /\ nbws \in BitWidthSign
    /\ \/ nkind \in ArithKinds /\ nargs \in {<<a, b>> : a \in Samples(nbws), b \in Samples(nbws)}
       \/ nkind \in IConvKinds /\ nargs \in {<<a>> : a \in Samples(nbws)}
    /\ ncode = <<>> /\ npc = 0 /\ nstack = <<>>

\* emit.rs compile_block, numerics WITH metadata: lower the instruction; the
\* operands are already on the target stack
NumEmit ==
    /\ nphase = "input"
    /\ ncode' = emit_numeric_instr(nkind, nbws, FALSE)
    /\ nstack' = nargs
    /\ npc' = 1
    /\ nphase' = "exec"
    /\ UNCHANGED <<nkind, nbws, nargs, notNum>>

\* one target instruction applied to the target stack (top = last element)
ExecInstr(i, st) ==
    LET n   == Len(st)
        top == st[n]
        snd == st[n - 1]
        rest2 == SubSeq(st, 1, n - 2)
    IN  CASE i.op = "I32Const" -> Append(st, ConstW(i.n))
          [] i.op = "I32Add"   -> Append(rest2, I32AddW(snd, top))
          [] i.op = "I32Sub"   -> Append(rest2, I32SubW(snd, top))
          [] i.op = "I32Mul"   -> Append(rest2, I32MulW(snd, top))
          [] i.op = "I32And"   -> Append(rest2, I32AndW(snd, top))
          [] i.op = "I32Shl"   -> Append(rest2, I32ShlW(snd, Lo(top)))
          [] i.op = "I32ShrS"  -> Append(rest2, I32ShrSW(snd, Lo(top)))

NumExec ==
    /\ nphase = "exec"
    /\ npc <= Len(ncode)
    /\ nstack' = ExecInstr(ncode[npc], nstack)
    /\ npc' = npc + 1
    /\ UNCHANGED <<nkind, nbws, nargs, ncode, nphase, notNum>>

NumFinish ==
    /\ nphase = "exec"
    /\ npc > Len(ncode)
    /\ nphase' = "done"
    /\ UNCHANGED <<nkind, nbws, nargs, ncode, npc, nstack, notNum>>

NumNext == NumEmit \/ NumExec \/ NumFinish

SpecNum == NumInit /\ [][NumNext]_vars

(***************************************************************************)
(* The stack/type verifier: Verifier::verify_block (verify.rs).            *)
(*                                                                         *)
(* The block under verification is read one instruction at a time, as the  *)
(* `for (i, instr) in block.body.iter().enumerate()` loop does; vbody is   *)
(* the prefix read so far and the next instruction is any instruction of   *)
(* the alphabet.  Each arm of the match is an operator from the stack      *)
(* before the instruction to the outcome [res, err, stack, meta].          *)
(***************************************************************************)
MaxBody == 3

\* types used as instruction operands and in signatures
VTypes == {"Int8", "UInt16", "Int32", "Float32", "Ptr"}

\* declared return sequences of functions and blocks
RetSeqs == {<<>>, <<"Int32">>, <<"Float32">>, <<"Int32", "Float32">>, <<"Float32", "Int32">>}

Top(st) == st[Len(st)]
Pop(st) == SubSeq(st, 1, Len(st) - 1)

NoMeta == [ty |-> None, from |-> None, bws |-> None]

Cont(st, meta) == [res |-> "Running", err |-> "", stack |-> st, meta |-> meta]
Fails(e, st)   == [res |-> "Err", err |-> e, stack |-> st, meta |-> NoMeta]

\* abi.rs: Wasm32Abi::type_sizeof for the scalar types
type_sizeof(t) ==
    CASE t \in {"Int8", "UInt8"}   -> 1
      [] t \in {"Int16", "UInt16"} -> 2
      [] t \in {"Int32", "UInt32"} -> 4
      [] t = "Float32" -> 4
      [] t = "Ptr" -> 4

\* `*val as i32 > c` for a constant 0 <= c < 2^16
AsI32Gt(val, c) == Hi(val) < 32768 /\ (Hi(val) > 0 \/ Lo(val) > c)
\* `(*val as i32) < c` for a constant -2^16 <= c < 0
AsI32Lt(val, c) == Hi(val) >= 32768 /\ (Hi(val) < Limb - 1 \/ Lo(val) < Limb + c)

\* verify.rs 31-57
VerifyLdInt(val, ty, st) ==
    IF ~is_int(ty) THEN Fails("InvalidType", st)
    ELSE IF \/ ty = "Int8"   /\ (AsI32Gt(val, 127) \/ AsI32Lt(val, -128))
            \/ ty = "UInt8"  /\ AsI32Gt(val, 255)
            \/ ty = "Int16"  /\ (AsI32Gt(val, 32767) \/ AsI32Lt(val, -32768))
            \/ ty = "UInt16" /\ AsI32Gt(val, 65535)
         THEN Fails("ConstIntOverflow", st)
         ELSE Cont(Append(st, ty), NoMeta)

\* verify.rs 58
VerifyLdFloat(st) == Cont(Append(st, "Float32"), NoMeta)

\* verify.rs 59-92: IAdd | ISub | IMul | IDiv | ICmp
VerifyIntArith(kind, st) ==
    IF Len(st) = 0 THEN Fails("StackUnderflow", st)
    ELSE IF Len(st) = 1 THEN Fails("StackUnderflow", Pop(st))
    ELSE LET lhs  == Top(st)
             rhs  == Top(Pop(st))
             rest == Pop(Pop(st))
         IN  IF ~is_int(lhs) THEN Fails("InvalidType", rest)
             ELSE IF ~is_int(rhs) THEN Fails("InvalidType", rest)
             ELSE IF lhs # rhs THEN Fails("IntegerSizeMismatch", rest)
             ELSE Cont(Append(rest, IF kind.k = "ICmp" THEN "Int32" ELSE lhs),
                       [NoMeta EXCEPT !.bws = type_to_bws(lhs)])

\* verify.rs 93-128: FAdd | FSub | FMul | FDiv push Float32, FCmp pushes Int32
VerifyFloatArith(kind, st) ==
    IF Len(st) = 0 THEN Fails("StackUnderflow", st)
    ELSE IF Len(st) = 1 THEN Fails("StackUnderflow", Pop(st))
    ELSE LET lhs  == Top(st)
             rhs  == Top(Pop(st))
             rest == Pop(Pop(st))
         IN  IF lhs = "Float32" /\ rhs = "Float32"
             THEN Cont(Append(rest, IF kind.k = "FCmp" THEN "Int32" ELSE "Float32"), NoMeta)
             ELSE Fails("InvalidType", rest)

\* verify.rs 129-141
VerifyItof(st) ==
    IF Len(st) = 0 THEN Fails("StackUnderflow", st)
    ELSE IF ~is_int(Top(st)) THEN Fails("InvalidType", Pop(st))
    ELSE Cont(Append(Pop(st), "Float32"), [NoMeta EXCEPT !.bws = type_to_bws(Top(st))])

\* verify.rs 142-161
VerifyFtoi(int_ty, st) ==
    IF Len(st) = 0 THEN Fails("StackUnderflow", st)
    ELSE IF ~is_float(Top(st)) THEN Fails("InvalidType", Pop(st))
    ELSE IF ~is_int(int_ty) THEN Fails("InvalidType", Pop(st))
    ELSE Cont(Append(Pop(st), int_ty), [NoMeta EXCEPT !.bws = type_to_bws(int_ty)])

\* verify.rs 162-182
VerifyIConv(target, st) ==
    IF Len(st) = 0 THEN Fails("StackUnderflow", st)
    ELSE IF ~is_int(Top(st)) THEN Fails("InvalidType", Pop(st))
    ELSE IF ~is_int(target) THEN Fails("InvalidType", Pop(st))
    ELSE Cont(Append(Pop(st), target), [NoMeta EXCEPT !.bws = type_to_bws(Top(st))])

\* verify.rs 259-270: every source/target pair is accepted
VerifyBitcast(target, st) ==
    IF Len(st) = 0 THEN Fails("StackUnderflow", st)
    ELSE Cont(Append(Pop(st), target), [NoMeta EXCEPT !.from = Top(st)])

\* verify.rs 398-402
VerifyDiscard(st) ==
    IF Len(st) = 0 THEN Fails("StackUnderflow", st) ELSE Cont(Pop(st), NoMeta)

\* verify.rs 403-417.  `(stack.len()-1)..=0` is empty unless stack.len() = 1;
\* for stack.len() = 0 the subtraction overflows usize: a build with overflow
\* checks panics there, a build without them wraps and the range is empty.
VerifyReturn(ret, overflow_checks, st) ==
    IF Len(st) # Len(ret) THEN Fails("StackUnderflow", st)
    ELSE IF Len(st) = 0
         THEN IF overflow_checks
              THEN [res |-> "Panic", err |-> "", stack |-> st, meta |-> NoMeta]
              ELSE Cont(st, NoMeta)
    ELSE IF Len(st) = 1
         THEN IF Top(st) # ret[1] THEN Fails("InvalidType", Pop(st))
              ELSE Cont(Pop(st), NoMeta)
    ELSE Cont(st, NoMeta)

\* verify.rs 418-421
VerifyMemorySize(st) == Cont(Append(st, "Int32"), NoMeta)

\* verify.rs 422-433
VerifyMemoryGrow(st) ==
    IF Len(st) = 0 THEN Fails("StackUnderflow", st)
    ELSE IF ~is_int(Top(st)) THEN Fails("InvalidType", Pop(st))
    ELSE Cont(st, NoMeta)

\* verify.rs 449-453: `return Ok(())`
VerifyFail(st) == [res |-> "Ok", err |-> "Fail", stack |-> st, meta |-> NoMeta]

\* verify.rs 474-487: stack.iter().zip(block.returns().iter()).all(..)
RECURSIVE ZipAllEqual(_, _)
ZipAllEqual(a, b) ==
    IF Len(a) = 0 \/ Len(b) = 0 THEN TRUE
    ELSE Head(a) = Head(b) /\ ZipAllEqual(Tail(a), Tail(b))

BlockEndCheck(st, returns) ==
    IF ~ZipAllEqual(st, returns)
    THEN Fails("InvalidBlockType", st)
    ELSE [res |-> "Ok", err |-> "end", stack |-> st, meta |-> NoMeta]

\* one iteration of the loop over block.body
VStep(instr, r) ==
    /\ vres = "Running"
    /\ Len(vbody) < MaxBody
    /\ vbody' = Append(vbody, instr)
    /\ vinfo' = Append(vinfo, r.meta)
    /\ vstack' = r.stack
    /\ vres' = r.res
    /\ verr' = r.err
    /\ UNCHANGED <<vret, vblockret, vfunc, notVer>>

LdIntSmall == {<<0, 1>>}

VLdInt == \E val \in LdIntSmall, ty \in VTypes :
    VStep([k |-> "LdInt", val |-> val, ty |-> ty], VerifyLdInt(val, ty, vstack))

VLdFloat == VStep([k |-> "LdFloat"], VerifyLdFloat(vstack))

VIntArith == \E k \in {"IAdd", "ISub", "IMul", "IDiv", "ICmp"} :
    VStep([k |-> k], VerifyIntArith([k |-> k], vstack))

VFloatArith == \E k \in {"FAdd", "FSub", "FMul", "FDiv", "FCmp"} :
    VStep([k |-> k], VerifyFloatArith([k |-> k], vstack))

VItof == VStep([k |-> "Itof"], VerifyItof(vstack))

VFtoi == \E ty \in VTypes :
    VStep([k |-> "Ftoi", int_ty |-> ty], VerifyFtoi(ty, vstack))

VIConv == \E ty \in VTypes :
    VStep([k |-> "IConv", target |-> ty], VerifyIConv(ty, vstack))

VBitcast == \E ty \in VTypes :
    VStep([k |-> "Bitcast", target |-> ty], VerifyBitcast(ty, vstack))

VDiscard == VStep([k |-> "Discard"], VerifyDiscard(vstack))

VReturn == \E overflow_checks \in BOOLEAN :
    VStep([k |-> "Return"], VerifyReturn(vret, overflow_checks, vstack))

VMemorySize == VStep([k |-> "MemorySize"], VerifyMemorySize(vstack))

VMemoryGrow == VStep([k |-> "MemoryGrow"], VerifyMemoryGrow(vstack))

VFail == VStep([k |-> "Fail"], VerifyFail(vstack))

\* the body is exhausted: the check after the loop
VEndBlock ==
    /\ vres = "Running"
    /\ LET r == BlockEndCheck(vstack, vblockret)
       IN  /\ vres' = r.res
           /\ verr' = r.err
           /\ vstack' = r.stack
    /\ UNCHANGED <<vret, vblockret, vbody, vinfo, vfunc, notVer>>

VerInit ==
    /\ NumIdle /\ CfIdle /\ ExtIdle
    /\ vret \in RetSeqs
    /\ vblockret \in RetSeqs
    /\ vfunc = <<>>
    /\ vbody = <<>> /\ vinfo = <<>>
    /\ vstack = <<>>
    /\ vres = "Running" /\ verr = ""

VerNext ==
    \/ VLdInt \/ VLdFloat \/ VIntArith \/ VFloatArith \/ VItof \/ VFtoi
    \/ VIConv \/ VBitcast \/ VDiscard \/ VReturn \/ VMemorySize
    \/ VMemoryGrow \/ VFail \/ VEndBlock

SpecVerify == VerInit /\ [][VerNext]_vars


(***************************************************************************)
(* The verifier on a block whose instructions are LdInt with constants at  *)
(* the edges of every integer range.                                       *)
(***************************************************************************)
AllTypes == IntTypes \cup {"Float32", "Ptr"}

\* u32 constants: 0, 1, 127, 128, 255, 256, 32767, 32768, 65535, 65536,
\* 2^31 - 1, 2^31, -32769, -32768, -129, -128, -1 (as u32 bit patterns)
LdIntEdges ==
    {<<0, 0>>, <<0, 1>>, <<0, 127>>, <<0, 128>>, <<0, 255>>, <<0, 256>>,
     <<0, 32767>>, <<0, 32768>>, <<0, 65535>>, <<1, 0>>,
     <<32767, 65535>>, <<32768, 0>>, <<65535, 32767>>, <<65535, 32768>>,
     <<65535, 65407>>, <<65535, 65408>>, <<65535, 65535>>}

\* how many edge constants one block loads
MaxEdgeLoads == 2

VLdIntEdge == \E val \in LdIntEdges, ty \in AllTypes :
    /\ Len(vbody) < MaxEdgeLoads
    /\ VStep([k |-> "LdInt", val |-> val, ty |-> ty], VerifyLdInt(val, ty, vstack))

LdIntInit ==
    /\ NumIdle /\ CfIdle /\ ExtIdle
    /\ vret = <<>>
    /\ vblockret \in {<<>>, <<"Int32">>}
    /\ vfunc = <<>>
    /\ vbody = <<>> /\ vinfo = <<>>
    /\ vstack = <<>>
    /\ vres = "Running" /\ verr = ""

LdIntNext == VLdIntEdge \/ VDiscard \/ VEndBlock

SpecLdInt == LdIntInit /\ [][LdIntNext]_vars

(***************************************************************************)
(* Claims about the stack/type verifier.                                   *)
(***************************************************************************)
Diverging == {"Return", "Fail", "Break"}

NoDiverging(body) == \A i \in 1..Len(body) : body[i].k \notin Diverging

\* C1: a block accepted by the verifier leaves on the simulated stack exactly
\* its declared return sequence (same length, same types, same order).
\* Stated for blocks that run to their end without Return, Fail or Break.
C1_AcceptedBlockLeavesReturns ==
    (vres = "Ok" /\ NoDiverging(vbody)) => vstack = vblockret

\* the step that reads a Return instruction
ReadsReturn ==
    /\ vres = "Running"
    /\ Len(vbody') = Len(vbody) + 1
    /\ vbody'[Len(vbody')].k = "Return"

\* C2: at a Return the verifier accepts iff the stack holds exactly the
\* function's declared return sequence; a type difference is rejected with
\* InvalidType; the check never aborts.
C2_ReturnChecksExactly ==
    [][ReadsReturn =>
          /\ vres' # "Panic"
          /\ (vres' = "Running") <=> (vstack = vret)
          /\ (vres' = "Err" /\ Len(vstack) = Len(vret)) => verr' = "InvalidType"
      ]_vars

\* the 32-bit constant fits the range of the integer type, read as unsigned
\* for the unsigned types
FitsRange(val, ty) ==
    CASE ty = "Int8"   -> \/ Hi(val) = 0 /\ Lo(val) <= 127
                          \/ Hi(val) = Limb - 1 /\ Lo(val) >= Limb - 128
      [] ty = "UInt8"  -> Hi(val) = 0 /\ Lo(val) <= 255
      [] ty = "Int16"  -> \/ Hi(val) = 0 /\ Lo(val) <= 32767
                          \/ Hi(val) = Limb - 1 /\ Lo(val) >= 32768
      [] ty = "UInt16" -> Hi(val) = 0
      [] OTHER         -> TRUE

\* C9: LdInt(v, ty) is accepted only when ty is an integer type and v fits
\* ty's range; every other v is rejected with ConstIntOverflow.
C9_LdIntFitsRange ==
    \A i \in 1..Len(vbody) :
        vbody[i].k = "LdInt" =>
            LET accepted == i < Len(vbody) \/ vres \in {"Running", "Ok"}
            IN  /\ accepted => (is_int(vbody[i].ty) /\ FitsRange(vbody[i].val, vbody[i].ty))
                /\ (is_int(vbody[i].ty) /\ ~FitsRange(vbody[i].val, vbody[i].ty))
                       => (~accepted /\ verr = "ConstIntOverflow")

\* C10: a Bitcast is accepted only when the popped source type and the
\* target type have the same size; the source type is recorded as `from`.
C10_BitcastSameSize ==
    \A i \in 1..Len(vbody) :
        (vbody[i].k = "Bitcast" /\ (i < Len(vbody) \/ vres \in {"Running", "Ok"})) =>
            /\ vinfo[i].from # None
            /\ type_sizeof(vinfo[i].from) = type_sizeof(vbody[i].target)


(***************************************************************************)
(* Claims about numeric lowering.                                          *)
(***************************************************************************)
\* the exact result of the operation on the operands, modulo 2^Width(bws)
ExactLow(kind, bws, a, b) ==
    LET m  == Pow2(Width(bws))
        la == Lo(a) % m
        lb == Lo(b) % m
    IN  CASE kind.k = "IAdd" -> (la + lb) % m
          [] kind.k = "ISub" -> (la - lb + m) % m
          [] kind.k = "IMul" -> MulLow16(la, lb) % m

NarrowArithDone ==
    /\ nphase = "done"
    /\ nkind \in ArithKinds
    /\ Width(nbws) < 32

\* C7: IAdd, ISub and IMul on operands of a narrow integer type yield the
\* exact result modulo 2^width, as a value in the range of the operand type
\* (masked for UInt16 and UInt8, sign-extended for Int16 and Int8).
C7_NarrowArithWraps ==
    NarrowArithDone =>
        /\ Len(nstack) = 1
        /\ InRange(nbws, nstack[1])
        /\ nstack[1] = Extend(nbws, <<0, ExactLow(nkind, nbws, nargs[1], nargs[2])>>)

\* C8: IConv yields the source value truncated to the target width and
\* then sign-extended for a signed target, zero-extended for an unsigned one.
C8_IConvTruncatesAndExtends ==
    (nphase = "done" /\ nkind \in IConvKinds) =>
        LET tb == type_to_bws(nkind.target)
        IN  nstack = <<Extend(tb, LowBits(tb, nargs[1]))>>

(***************************************************************************)
(* The control-flow verifier: ControlFlowVerifier (cf_verify.rs).          *)
(*                                                                         *)
(* The function under verification has the blocks 0..NBlocks-1; the id     *)
(* NBlocks names no block.  Its content is drawn as the verifier reads it: *)
(* a block's body grows by the instruction the `for instr in &block.body`  *)
(* loop reads next, and a tag is fixed by the first read of it.  Only the   *)
(* instructions that matter to control flow are kept: IfElse, Loop, Break. *)
(* The function holds at most MaxCfInstrs of them.                         *)
(*                                                                         *)
(* blocks_iter walks a HashMap: its order is arbitrary, and the same in    *)
(* both loops of visit_function.  The model takes the blocks in ascending  *)
(* order of id and lets a reference name a block no earlier than its own   *)
(* (or the entry block): a function's graph and the order of the map are   *)
(* covered up to the numbering of the blocks this way, except for the      *)
(* cycles over more than one block.                                        *)
(***************************************************************************)
NBlocks == 4
MaxCfInstrs == 3

\* an absent value: a key the map does not hold, Option::None
Unset == -1

BlockIds == 0..(NBlocks - 1)
RefIds   == 0..NBlocks          \* ids an instruction may name
BlockTag == {"Undefined", "Main", "IfElse", "Loop"}

Range(f) == {f[i] : i \in DOMAIN f}

IfElseI(then, else) == [k |-> "IfElse", then |-> then, else |-> else]
LoopI(child)        == [k |-> "Loop", then |-> child, else |-> Unset]
BreakI              == [k |-> "Break", then |-> Unset, else |-> Unset]

\* the tag of block b, given the tag t drawn for a first read
ReadTag(tags, b, t) == IF tags[b] = "?" THEN t ELSE tags[b]

\* The tags to draw from when the tag of block b is read for the first
\* time.  A block other than the entry block is not drawn with the Main tag:
\* off the entry block the pass treats Main as it treats Undefined.
TagDraw(tags, b) ==
    IF b \in BlockIds /\ tags[b] = "?" THEN BlockTag \ {"Main"} ELSE {"Undefined"}

\* cf_verify.rs 24-51: assert_parent followed by assert_tag, on the state
\* st = [res, err, parents, tags]; t is the tag drawn if `this` is unread
AssertChild(st, this, parent, expected_tag, t) ==
    IF st.res # "ok" THEN st
    ELSE IF st.parents[this] # Unset
         THEN [st EXCEPT !.res = "Err", !.err = "MultipleParents"]
    ELSE LET ins == [st EXCEPT !.parents[this] = parent]
         IN  IF this \notin BlockIds
             THEN [ins EXCEPT !.res = "Panic", !.err = "get_block(id).unwrap()"]
             ELSE LET tg == ReadTag(st.tags, this, t)
                      rd == [ins EXCEPT !.tags[this] = tg]
                  IN  IF tg # expected_tag
                      THEN [rd EXCEPT !.res = "Err", !.err = "InvalidBlockTag"]
                      ELSE rd

\* cf_verify.rs 81-96: one instruction of the walk over a block's body
ScanInstr(st, this_block, instr, t1, t2) ==
    CASE instr.k = "IfElse" ->
            LET a == AssertChild(st, instr.then, this_block, "IfElse", t1)
            IN  IF instr.else # Unset
                THEN AssertChild(a, instr.else, this_block, "IfElse", t2)
                ELSE a
      [] instr.k = "Loop" -> AssertChild(st, instr.then, this_block, "Loop", t1)
      [] OTHER -> st

NoWalk == [block |-> Unset, cur |-> Unset, dist |-> 0]

\* a block's metadata before the pass writes to it
NoMetaCf == [parent |-> Unset, innermost_loop_distance |-> Unset]

\* lib.rs 44-45: do_mut_pass(..).unwrap().  An error of the pass, like a
\* panic inside it, unwinds out of the pipeline, which owns the module:
\* the function is dropped and only the outcome is left.
Unwind(res, err) ==
    /\ cphase' = res /\ cerr' = err
    /\ ctag' = [b \in BlockIds |-> "?"]
    /\ cbody' = [b \in BlockIds |-> <<>>]
    /\ ccur' = Unset /\ cscan' = <<>>
    /\ cparents' = [b \in RefIds |-> Unset]
    /\ cdone' = {} /\ cwalk' = NoWalk
    /\ cilp' = [b \in BlockIds |-> Unset]
    /\ cmeta' = [b \in BlockIds |-> NoMetaCf]
    /\ cout' = <<>>
    /\ UNCHANGED notCf

\* cf_verify.rs 65-72: the entry block must carry the Main tag
CFEntryCheck == \E t \in BlockTag :
    /\ cphase = "Entry"
    /\ IF t # "Main"
       THEN Unwind("Err", "InvalidBlockTag")
       ELSE /\ ctag' = [ctag EXCEPT ![0] = t]
            /\ cphase' = "A"
            /\ UNCHANGED <<cerr, cbody, ccur, cscan, cparents, cdone, cwalk, cilp,
                           cmeta, cout, notCf>>

\* the block blocks_iter yields next: the lowest id not yet seen
NextInOrder(seen) ==
    LET rest == BlockIds \ seen
    IN  {b \in rest : \A c \in rest : b <= c}

\* the number of instructions read so far in the blocks 0..b
RECURSIVE InstrCount(_, _)
InstrCount(body, b) ==
    IF b < 0 THEN 0
    ELSE Len(body[b])
         + InstrCount(body, b - 1)

\* cf_verify.rs 76-77: blocks_iter yields the next block
CFNextBlock == \E b \in NextInOrder(Range(cscan)) :
    /\ cphase = "A" /\ ccur = Unset
    /\ ccur' = b
    /\ UNCHANGED <<ctag, cbody, cphase, cerr, cscan, cparents, cdone, cwalk, cilp,
                   cmeta, cout, notCf>>

\* The ids an instruction of block b may name: the entry block, b itself and
\* the blocks after it, and the id of no block.
Refs(b) == {c \in RefIds : c = 0 \/ c >= b}

\* A Break is drawn as the last instruction of its body only: what follows
\* it in a block is dead code.
EndsInBreak(body) == body # <<>> /\ body[Len(body)].k = "Break"

\* the body walk reads one more instruction
CFScan(instr, t1, t2) ==
    /\ cphase = "A" /\ ccur # Unset
    /\ InstrCount(cbody, NBlocks - 1) < MaxCfInstrs
    /\ ~EndsInBreak(cbody[ccur])
    /\ LET st == [res |-> "ok", err |-> "", parents |-> cparents, tags |-> ctag]
           r  == ScanInstr(st, ccur, instr, t1, t2)
       IN  IF r.res # "ok"
           THEN Unwind(r.res, r.err)
           ELSE /\ cbody' = [cbody EXCEPT ![ccur] = Append(@, instr)]
                /\ cparents' = r.parents
                /\ ctag' = r.tags
                /\ UNCHANGED <<cphase, cerr, ccur, cscan, cdone, cwalk, cilp, cmeta,
                               cout, notCf>>

CFScanIfElse == \E then \in Refs(ccur), else \in Refs(ccur) \cup {Unset} :
    \E t1 \in TagDraw(ctag, then), t2 \in TagDraw(ctag, else) :
        CFScan(IfElseI(then, else), t1, t2)

CFScanLoop == \E child \in Refs(ccur) : \E t1 \in TagDraw(ctag, child) :
    CFScan(LoopI(child), t1, t1)

CFScanOther == CFScan(BreakI, "Undefined", "Undefined")

\* the body of the current block is exhausted
CFEndBody ==
    /\ cphase = "A" /\ ccur # Unset
    /\ cscan' = Append(cscan, ccur)
    /\ ccur' = Unset
    /\ UNCHANGED <<ctag, cbody, cphase, cerr, cparents, cdone, cwalk, cilp, cmeta,
                   cout, notCf>>

\* cf_verify.rs 100-107: the main block can't have any parent
CFCheckMain ==
    /\ cphase = "A" /\ ccur = Unset /\ Range(cscan) = BlockIds
    /\ IF cparents[0] # Unset
       THEN Unwind("Err", "MultipleParents")
       ELSE /\ cphase' = "B"
            /\ UNCHANGED <<cerr, ctag, cbody, ccur, cscan, cparents, cdone, cwalk,
                           cilp, cmeta, cout, notCf>>

\* cf_verify.rs 120: the distance a walk starts with
WalkStart == 1

IfElseLevelFlat(dist) == dist
\* cf_verify.rs 131-133: an IfElse parent adds one level
IfElseLevel(dist) == dist + 1

\* cf_verify.rs 111-121: phase B takes the next block; the map is iterated
\* in the order of the first iteration
CFDistBlock ==
    /\ cphase = "B" /\ cwalk = NoWalk
    /\ cdone # BlockIds
    /\ \E t \in TagDraw(ctag, cscan[Cardinality(cdone) + 1]) :
       LET b  == cscan[Cardinality(cdone) + 1]
           tg == ReadTag(ctag, b, t)
       IN  /\ ctag' = [ctag EXCEPT ![b] = tg]
           /\ CASE tg \in {"Undefined", "Main"} ->
                     cdone' = cdone \cup {b} /\ UNCHANGED <<cilp, cwalk>>
                [] tg = "Loop" ->
                     /\ cilp' = [cilp EXCEPT ![b] = 0]
                     /\ cdone' = cdone \cup {b}
                     /\ UNCHANGED cwalk
                [] tg = "IfElse" ->
                     /\ cwalk' = [block |-> b, cur |-> b, dist |-> WalkStart]
                     /\ UNCHANGED <<cilp, cdone>>
    /\ UNCHANGED <<cbody, cphase, cerr, ccur, cscan, cparents, cmeta, cout, notCf>>

\* cf_verify.rs 122-141: one iteration of the walk up the parents.  A walk
\* longer than the number of blocks is in a cycle of IfElse blocks and goes
\* on forever; the model stops following it there.
CFWalk ==
    /\ cphase = "B" /\ cwalk # NoWalk
    /\ cwalk.dist <= NBlocks
    /\ \E t \in TagDraw(ctag, cparents[cwalk.cur]) :
       IF cparents[cwalk.cur] = Unset
       THEN \* indexing the map with a key it does not hold panics
            Unwind("Panic", "block_parents[&current_block]")
       ELSE LET parent == cparents[cwalk.cur]
                tg == ReadTag(ctag, parent, t)
            IN  /\ ctag' = [ctag EXCEPT ![parent] = tg]
                /\ UNCHANGED <<cphase, cbody, cerr, ccur, cscan, cparents, cmeta,
                               cout, notCf>>
                /\ CASE tg \in {"Undefined", "Main"} ->
                          /\ cwalk' = NoWalk
                          /\ cdone' = cdone \cup {cwalk.block}
                          /\ cilp' = cilp
                     [] tg = "IfElse" ->
                          /\ cwalk' = [cwalk EXCEPT !.cur = parent,
                                                    !.dist = IfElseLevel(cwalk.dist)]
                          /\ UNCHANGED <<cdone, cilp>>
                     [] tg = "Loop" ->
                          /\ cwalk' = NoWalk
                          /\ cdone' = cdone \cup {cwalk.block}
                          /\ cilp' = [cilp EXCEPT ![cwalk.block] = cwalk.dist]

\* cf_verify.rs 146: Ok(ControlFlowVerifierData { .. })
CFVisitOk ==
    /\ cphase = "B" /\ cwalk = NoWalk /\ cdone = BlockIds
    /\ cphase' = "VisitOk"
    /\ UNCHANGED <<ctag, cbody, cerr, ccur, cscan, cparents, cdone, cwalk, cilp,
                   cmeta, cout, notCf>>

\* cf_verify.rs 149-167: mutate_function writes both maps into block.meta
CFMutate ==
    /\ cphase = "VisitOk"
    /\ cmeta' = [b \in BlockIds |->
                    [parent |-> cparents[b], innermost_loop_distance |-> cilp[b]]]
    /\ cphase' = "Verified"
    /\ UNCHANGED <<ctag, cbody, cerr, ccur, cscan, cparents, cdone, cwalk, cilp,
                   cout, notCf>>

(***************************************************************************)
(* The emitter on control flow: WasmEmitter::compile_block (emit.rs).      *)
(* A target instruction is [op, n, src]: n is the depth of a br; src is    *)
(* the block it was compiled for, carried along only to state properties   *)
(* (for Loop it is the loop's body block; a br has from = "Break" or       *)
(* "Loop").                                                                *)
(***************************************************************************)
CI(op, n, src, from) == [op |-> op, n |-> n, src |-> src, from |-> from]

BreakDepthInner(ilp) == ilp
\* emit.rs 329-334: br(innermost_loop_distance_of_this_block + 1)
BreakDepth(ilp) == ilp + 1

RECURSIVE compile_block(_, _, _)
\* emit.rs 106-345, the arms IfElse (187-212), Loop (316-328), Break (329-334);
\* body and meta are the function's blocks and their metadata
compile_instr(body, meta, b, instr) ==
    CASE instr.k = "IfElse" ->
            <<CI("If", 0, instr.then, "IfElse")>>
            \o compile_block(body, meta, instr.then)
            \o <<CI("Else", 0, instr.then, "IfElse")>>
            \o (IF instr.else # Unset THEN compile_block(body, meta, instr.else) ELSE <<>>)
            \o <<CI("End", 0, instr.then, "IfElse")>>
      [] instr.k = "Loop" ->
            <<CI("Block", 0, instr.then, "Loop"), CI("Loop", 0, instr.then, "Loop")>>
            \o compile_block(body, meta, instr.then)
            \o <<CI("Br", 0, instr.then, "Loop"),
                 CI("End", 0, instr.then, "Loop"), CI("End", 0, instr.then, "Loop")>>
      [] instr.k = "Break" ->
            IF meta[b].innermost_loop_distance = Unset
            THEN <<CI("Panic", 0, b, "Break")>>      \* retrieve_copied(..).unwrap()
            ELSE <<CI("Br", BreakDepth(meta[b].innermost_loop_distance), b, "Break")>>

RECURSIVE compile_body(_, _, _, _)
compile_body(body, meta, b, i) ==
    IF i > Len(body[b]) THEN <<>>
    ELSE compile_instr(body, meta, b, body[b][i]) \o compile_body(body, meta, b, i + 1)

compile_block(body, meta, b) == compile_body(body, meta, b, 1)

\* emit.rs 80-104: compile_func compiles the entry block and closes it
compile_func(body, meta) == compile_block(body, meta, 0) \o <<CI("End", 0, 0, "Func")>>

EmitFunc ==
    /\ cphase = "Verified"
    /\ LET out == compile_func(cbody, cmeta)
       IN  IF \E i \in DOMAIN out : out[i].op = "Panic"
           THEN Unwind("Panic", "retrieve_copied(innermost_loop_distance).unwrap()")
           ELSE /\ cphase' = "Emitted" /\ cout' = out
                /\ UNCHANGED <<ctag, cbody, cerr, ccur, cscan, cparents, cdone, cwalk,
                               cilp, cmeta, notCf>>

CfInit ==
    /\ NumIdle /\ VerIdle /\ ExtIdle
    /\ ctag = [b \in BlockIds |-> "?"]
    /\ cbody = [b \in BlockIds |-> <<>>]
    /\ cphase = "Entry" /\ cerr = ""
    /\ ccur = Unset /\ cscan = <<>>
    /\ cparents = [b \in RefIds |-> Unset]
    /\ cdone = {} /\ cwalk = NoWalk
    /\ cilp = [b \in BlockIds |-> Unset]
    /\ cmeta = [b \in BlockIds |-> NoMetaCf]
    /\ cout = <<>>

CfNext ==
    \/ CFEntryCheck
    \/ CFNextBlock
    \/ CFScanIfElse
    \/ CFScanLoop
    \/ CFScanOther
    \/ CFEndBody
    \/ CFCheckMain
    \/ CFDistBlock
    \/ CFWalk
    \/ CFVisitOk
    \/ CFMutate
    \/ EmitFunc

SpecCF == CfInit /\ [][CfNext]_vars

(***************************************************************************)
(* Claims about control flow.  The graph of a function is read off the     *)
(* blocks' bodies, not off the verifier's maps.                            *)
(***************************************************************************)
\* the references to block c: (block, instruction, slot)
RefsTo(c) ==
    {r \in BlockIds \X (1..(MaxCfInstrs + 1)) \X {"then", "else"} :
        /\ r[2] \in DOMAIN cbody[r[1]]
        /\ cbody[r[1]][r[2]].k \in {"IfElse", "Loop"}
        /\ IF r[3] = "then" THEN cbody[r[1]][r[2]].then = c
                            ELSE cbody[r[1]][r[2]].else = c}

ParentsOf(c) == {r[1] : r \in RefsTo(c)}
ChildrenOf(b) == {c \in BlockIds : b \in ParentsOf(c)}

RECURSIVE ReachFrom(_, _)
ReachFrom(S, fuel) ==
    IF fuel = 0 THEN S
    ELSE ReachFrom(S \cup UNION {ChildrenOf(b) : b \in S}, fuel - 1)

Descendants(b) == ReachFrom(ChildrenOf(b), NBlocks)

CfAccepted == cphase \in {"VisitOk", "Verified", "Emitted"}
CfMutated  == cphase \in {"Verified", "Emitted"}

\* C3: for every function the control-flow verifier accepts, the graph of
\* the IfElse.then, IfElse.else and Loop references is a forest rooted at the
\* entry block: every other block has exactly one parent and is reachable
\* from block 0, no block is its own descendant, and block 0 has the Main
\* tag and no parent.
C3_AcceptedGraphIsForest ==
    CfAccepted =>
        /\ ctag[0] = "Main"
        /\ RefsTo(0) = {}
        /\ \A c \in BlockIds \ {0} :
              /\ Cardinality(RefsTo(c)) = 1
              /\ c \in Descendants(0)
        /\ \A b \in BlockIds : b \notin Descendants(b)

\* The number of IfElse-tagged ancestors between block b and its nearest
\* Loop-tagged ancestor, Unset when no ancestor carries the Loop tag.
RECURSIVE LoopAncestorLevels(_, _)
LoopAncestorLevels(b, fuel) ==
    IF fuel = 0 \/ ParentsOf(b) = {} THEN Unset
    ELSE LET p == CHOOSE q \in ParentsOf(b) : TRUE
         IN  IF ctag[p] = "Loop" THEN 0
             ELSE LET d == LoopAncestorLevels(p, fuel - 1)
                  IN  IF d = Unset THEN Unset
                      ELSE IF ctag[p] = "IfElse" THEN d + 1 ELSE d

\* what C4 expects of block b's innermost_loop_distance
ExpectedDistance(b) ==
    LET d == LoopAncestorLevels(b, NBlocks)
    IN  IF d = Unset THEN Unset ELSE d + 1

\* C4 as stated: after control-flow verification every block, whatever its
\* tag, has innermost_loop_distance k iff its chain to the nearest Loop
\* ancestor passes k-1 IfElse ancestors, and none iff it has no Loop ancestor.
C4_DistanceForEveryBlock ==
    CfMutated =>
        \A b \in BlockIds : cmeta[b].innermost_loop_distance = ExpectedDistance(b)

\* C4, amended: that relation holds for the blocks tagged IfElse; a block
\* tagged Loop has distance 0 whatever its ancestors, and a block tagged
\* Main or Undefined has none.
C4_DistanceByTag ==
    CfMutated =>
        \A b \in BlockIds :
            CASE ctag[b] = "IfElse" ->
                    cmeta[b].innermost_loop_distance = ExpectedDistance(b)
              [] ctag[b] = "Loop" -> cmeta[b].innermost_loop_distance = 0
              [] OTHER -> cmeta[b].innermost_loop_distance = Unset

\* an accepted function with an IfElse block two levels inside a loop, and
\* one with no loop around it
C4_Witness ==
    /\ CfMutated
    /\ \E b \in BlockIds : ctag[b] = "IfElse" /\ cmeta[b].innermost_loop_distance = 2
    /\ \E b \in BlockIds : ctag[b] = "Loop" /\ cmeta[b].innermost_loop_distance = 0

\* The labels open just before instruction i of code, innermost first, each
\* named by the position of the instruction that opened it.
RECURSIVE Labels(_, _)
Labels(code, i) ==
    IF i = 1 THEN <<>>
    ELSE LET prev == Labels(code, i - 1)
             op   == code[i - 1].op
         IN  IF op \in {"If", "Block", "Loop"} THEN <<i - 1>> \o prev
             ELSE IF op = "End" THEN Tail(prev)
             ELSE prev

\* the nearest block tagged Loop among b and its ancestors
RECURSIVE EnclosingLoop(_, _)
EnclosingLoop(b, fuel) ==
    IF ctag[b] = "Loop" THEN b
    ELSE IF fuel = 0 \/ ParentsOf(b) = {} THEN Unset
    ELSE EnclosingLoop(CHOOSE q \in ParentsOf(b) : TRUE, fuel - 1)

BreakBranches == {i \in DOMAIN cout : cout[i].op = "Br" /\ cout[i].from = "Break"}

\* C5: the br emitted for a Break in block b has depth
\* innermost_loop_distance(b) + 1; the labels it crosses are the ifs between
\* the Break and the innermost enclosing loop, then that loop, and its
\* target is the block that wraps that loop.  A Break directly in a loop
\* body has depth 1, one in a branch of an IfElse directly in a loop body 2.
C5_BreakExitsInnermostLoop ==
    cphase = "Emitted" =>
        \A i \in BreakBranches :
            LET b == cout[i].src
                n == cout[i].n
                L == Labels(cout, i)
            IN  /\ n = cmeta[b].innermost_loop_distance + 1
                /\ n >= 1 /\ Len(L) >= n + 1
                /\ \A j \in 1..(n - 1) : cout[L[j]].op = "If"
                /\ cout[L[n]].op = "Loop"
                /\ cout[L[n + 1]].op = "Block" /\ L[n + 1] = L[n] - 1
                /\ cout[L[n]].src = EnclosingLoop(b, NBlocks)
                /\ ctag[b] = "Loop" => n = 1
                /\ (ctag[b] = "IfElse" /\ \E p \in ParentsOf(b) : ctag[p] = "Loop")
                      => n = 2

\* a Break in a branch of an IfElse inside a loop has been emitted
C5_Witness ==
    /\ cphase = "Emitted"
    /\ \E i \in BreakBranches : cout[i].n = 2 /\ ctag[cout[i].src] = "IfElse"

VerifierPanics == {"get_block(id).unwrap()", "block_parents[&current_block]"}

\* C6: control-flow verification of a function always completes with
\* acceptance or an error: it never panics, and the walk up the parents
\* never runs on past the number of blocks.
C6_VerificationCompletes ==
    /\ ~(cphase = "Panic" /\ cerr \in VerifierPanics)
    /\ ~(cphase = "B" /\ cwalk.dist > NBlocks)

(***************************************************************************)
(* The verifier on a block of a function with other blocks and locals:     *)
(* the arms IfElse and StLocal of verify_block.                            *)
(*                                                                         *)
(* vfunc.blocks maps the ids of the function's other blocks to their       *)
(* declared returns; vfunc.locals are all_locals_types, of which the first *)
(* vfunc.argc are the arguments.                                           *)
(***************************************************************************)
VBlockIds == {1, 2}
VNoBlock  == 3                  \* an id function.get_block has no block for
BlockRets == {<<>>, <<"Int32">>, <<"Int32", "Float32">>}
LocalSeqs == {<<>>, <<"Int32">>, <<"Int32", "Float32">>}

\* the absent else of an IfElse
NoElse == 0

VerifyIfElseAnyThen(then, else, blocks, st) ==
    IF Len(st) = 0 THEN Fails("StackUnderflow", st)
    ELSE IF ~is_int(Top(st)) THEN Fails("InvalidType", Pop(st))
    ELSE IF then \notin DOMAIN blocks THEN Fails("InvalidBlockId", Pop(st))
    ELSE IF else # NoElse /\ else \notin DOMAIN blocks THEN Fails("InvalidBlockId", Pop(st))
    ELSE IF else # NoElse /\ blocks[then] # blocks[else]
         THEN Fails("InvalidBlockType", Pop(st))
         ELSE Cont(Pop(st) \o blocks[then], NoMeta)
\* verify.rs 271-314
VerifyIfElse(then, else, blocks, st) ==
    IF Len(st) = 0 THEN Fails("StackUnderflow", st)
    ELSE IF ~is_int(Top(st)) THEN Fails("InvalidType", Pop(st))
    ELSE IF then \notin DOMAIN blocks THEN Fails("InvalidBlockId", Pop(st))
    ELSE LET then_block_returns == blocks[then]
         IN  IF else # NoElse
             THEN IF else \notin DOMAIN blocks THEN Fails("InvalidBlockId", Pop(st))
                  ELSE IF then_block_returns # blocks[else]
                       THEN Fails("InvalidBlockType", Pop(st))
                       ELSE Cont(Pop(st) \o then_block_returns, NoMeta)
             ELSE IF then_block_returns # <<>>
                  THEN Fails("InvalidBlockType", Pop(st))
                  ELSE Cont(Pop(st) \o then_block_returns, NoMeta)

\* instr.rs 365-367: Function::local_ty
local_ty(locals, idx) == IF idx + 1 \in DOMAIN locals THEN locals[idx + 1] ELSE None

is_local_an_arg_but_last(argc, n) == n + 1 < argc
\* instr.rs 381-384: Function::is_local_an_arg
is_local_an_arg(argc, n) == n < argc

\* verify.rs 209-225
VerifyStLocal(idx, locals, argc, st) ==
    IF Len(st) = 0 THEN Fails("StackUnderflow", st)
    ELSE LET val    == Top(st)
             loc_ty == local_ty(locals, idx)
         IN  IF loc_ty = None THEN Fails("OutOfBoundsLocalIndex", Pop(st))
             ELSE IF loc_ty # val THEN Fails("InvalidType", Pop(st))
             ELSE IF is_local_an_arg(argc, idx) THEN Fails("ArgumentStore", Pop(st))
             ELSE Cont(Pop(st), NoMeta)

VIfElse == \E then \in VBlockIds \cup {VNoBlock}, else \in VBlockIds \cup {VNoBlock, NoElse} :
    VStep([k |-> "IfElse", then |-> then, else |-> else],
          VerifyIfElse(then, else, vfunc.blocks, vstack))

VStLocal == \E idx \in 0..2 :
    VStep([k |-> "StLocal", idx |-> idx],
          VerifyStLocal(idx, vfunc.locals, vfunc.argc, vstack))

VLdIntFunc == \E ty \in {"Int8", "Int32"} :
    VStep([k |-> "LdInt", val |-> <<0, 1>>, ty |-> ty], VerifyLdInt(<<0, 1>>, ty, vstack))

FuncInit ==
    /\ NumIdle /\ CfIdle /\ ExtIdle
    /\ vret = <<>>
    /\ vblockret \in {<<>>, <<"Int32">>}
    /\ \E blocks \in [VBlockIds -> BlockRets], locals \in LocalSeqs :
          \E argc \in 0..Len(locals) :
              vfunc = [blocks |-> blocks, locals |-> locals, argc |-> argc]
    /\ vbody = <<>> /\ vinfo = <<>>
    /\ vstack = <<>>
    /\ vres = "Running" /\ verr = ""

FuncNext == VLdIntFunc \/ VLdFloat \/ VIfElse \/ VStLocal \/ VFail \/ VEndBlock

SpecVerifyFunc == FuncInit /\ [][FuncNext]_vars

\* the step that reads an instruction of kind k
Reads(k) ==
    /\ vres = "Running"
    /\ Len(vbody') = Len(vbody) + 1
    /\ vbody'[Len(vbody')].k = k

ReadInstr == vbody'[Len(vbody')]

\* whether the verifier accepts IfElse{then, else} as far as the blocks' types go
IfElseTypesAgree(then, else) ==
    /\ then \in VBlockIds
    /\ IF else = NoElse THEN vfunc.blocks[then] = <<>>
       ELSE else \in VBlockIds /\ vfunc.blocks[then] = vfunc.blocks[else]

\* C11: an IfElse met with an integer condition on the stack is accepted only
\* if both blocks declare the same returns (the then block none when there
\* is no else block) and is rejected with InvalidBlockType otherwise; once
\* accepted it has popped the condition and pushed the then block's returns.
C11_IfElseBlockTypes ==
    [][(Reads("IfElse") /\ vstack # <<>> /\ is_int(Top(vstack))
            /\ ReadInstr.then \in VBlockIds
            /\ ReadInstr.else \in VBlockIds \cup {NoElse})
        => IF IfElseTypesAgree(ReadInstr.then, ReadInstr.else)
           THEN /\ vres' = "Running"
                /\ vstack' = Pop(vstack) \o vfunc.blocks[ReadInstr.then]
           ELSE vres' = "Err" /\ verr' = "InvalidBlockType"]_vars

\* an IfElse with an else block and two returns has been accepted
C11_Witness ==
    /\ vres = "Running" /\ vbody # <<>>
    /\ vbody[Len(vbody)].k = "IfElse" /\ vbody[Len(vbody)].else # NoElse
    /\ Len(vstack) >= 2

\* C12: a block that stores to an argument local is never accepted, and the
\* store is rejected with ArgumentStore when the stack top has the local's
\* type.  (Nothing is read after a Fail: verify_block has returned.)
C12_ArgumentStoreRejected ==
    /\ [](vres = "Ok" =>
            \A i \in DOMAIN vbody :
                vbody[i].k = "StLocal" => vbody[i].idx >= vfunc.argc)
    /\ [][(Reads("StLocal") /\ ReadInstr.idx < vfunc.argc)
            => /\ vres' = "Err"
               /\ (vstack # <<>> /\ Top(vstack) = local_ty(vfunc.locals, ReadInstr.idx))
                     => verr' = "ArgumentStore"]_vars

\* a store to an argument met a value of the argument's type
C12_Witness ==
    /\ vres = "Err" /\ verr = "ArgumentStore"
    /\ vbody[Len(vbody)].k = "StLocal"

(***************************************************************************)
(* Struct layout: Wasm32Abi and struct_calc_algorithm (abi.rs).            *)
(*                                                                         *)
(* A type is a record [k] for a scalar, Ptr or Func and [k, fields] for a  *)
(* struct.  The algorithm's loop runs one field per step.                  *)
(***************************************************************************)
MaxFields == 4

Scalar(k) == [k |-> k]
StructT(fields) == [k |-> "Struct", fields |-> fields]

RECURSIVE struct_calc_algorithm(_)

\* abi.rs 47-60: Wasm32Abi::type_sizeof
abi_type_sizeof(ty) ==
    CASE ty.k \in {"Int8", "UInt8"}   -> 1
      [] ty.k \in {"Int16", "UInt16"} -> 2
      [] ty.k \in {"Int32", "UInt32"} -> 4
      [] ty.k = "Float32" -> 4
      [] ty.k = "Func" -> 4
      [] ty.k = "Ptr" -> 4
      [] ty.k = "Struct" -> struct_calc_algorithm(ty.fields)[2]

\* abi.rs 62-73: Wasm32Abi::type_alignment
abi_type_alignment(ty) ==
    CASE ty.k \in {"Int8", "UInt8"}   -> 0
      [] ty.k \in {"Int16", "UInt16"} -> 1
      [] ty.k \in {"Int32", "UInt32"} -> 2
      [] ty.k = "Float32" -> 2
      [] ty.k = "Func" -> 2
      [] ty.k = "Ptr" -> 2
      [] ty.k = "Struct" -> struct_calc_algorithm(ty.fields)[3]

PadNever(size, field_alignment) == size
\* abi.rs 93-97: if alignment is not preserved, add padding
Pad(size, field_alignment) ==
    IF size % field_alignment # 0
    THEN size + (field_alignment - (size % field_alignment))
    ELSE size

\* abi.rs 90-104: one iteration of the loop, on the state <<offsets, size, align>>
StructCalcStep(st, field) ==
    LET field_alignment == Pow2(abi_type_alignment(field))
        start == Pad(st[2], field_alignment)
    IN  <<Append(st[1], start),
          start + abi_type_sizeof(field),
          IF abi_type_alignment(field) > st[3] THEN abi_type_alignment(field) ELSE st[3]>>

RECURSIVE StructCalcLoop(_, _, _)
StructCalcLoop(st, fields, i) ==
    IF i > Len(fields) THEN st
    ELSE StructCalcLoop(StructCalcStep(st, fields[i]), fields, i + 1)

\* abi.rs 85-107
struct_calc_algorithm(struct_fields) == StructCalcLoop(<<<<>>, 0, 0>>, struct_fields, 1)

\* abi.rs 75-78: Wasm32Abi::struct_field_offset
struct_field_offset(struct_fields, field_n) ==
    struct_calc_algorithm(struct_fields)[1][field_n + 1]

\* the field types a struct is drawn from
FieldTypes ==
    LET s1 == StructT(<<Scalar("Int16"), Scalar("Int8")>>)
    IN  {Scalar("Int8"), Scalar("UInt8"), Scalar("Int16"), Scalar("Int32"),
         Scalar("Ptr"), Scalar("Func"),
         StructT(<<>>), s1, StructT(<<s1, Scalar("Int32")>>)}

AbiInit ==
    /\ NumIdle /\ VerIdle /\ CfIdle /\ SmIdle /\ ModIdle /\ CorIdle /\ RwIdle /\ MetaIdle /\ BldIdle
    /\ \E n \in 0..MaxFields : afields \in [1..n -> FieldTypes]
    /\ aoffsets = <<>> /\ asize = 0 /\ aalign = 0
    /\ aphase = "loop"

\* abi.rs 90-104: the loop body for the next field
AbiField ==
    /\ aphase = "loop" /\ Len(aoffsets) < Len(afields)
    /\ LET st == StructCalcStep(<<aoffsets, asize, aalign>>, afields[Len(aoffsets) + 1])
       IN  aoffsets' = st[1] /\ asize' = st[2] /\ aalign' = st[3]
    /\ UNCHANGED <<afields, aphase, notAbi>>

\* abi.rs 106: (field_start_offsets, size, align)
AbiReturn ==
    /\ aphase = "loop" /\ Len(aoffsets) = Len(afields)
    /\ aphase' = "done"
    /\ UNCHANGED <<afields, aoffsets, asize, aalign, notAbi>>

AbiNext == AbiField \/ AbiReturn

SpecAbi == AbiInit /\ [][AbiNext]_vars

\* the least multiple of a that is not smaller than x
LeastMultipleFrom(a, x) == CHOOSE m \in x..(x + a - 1) : m % a = 0

MaxOf(S) == IF S = {} THEN 0 ELSE CHOOSE m \in S : \A x \in S : x <= m

RECURSIVE LayoutSize(_), LayoutAlign(_), LayoutOffset(_, _)

\* the layout C13 describes: alignment exponent, field offset (n from 1), size
LayoutAlign(ty) ==
    IF ty.k = "Struct"
    THEN MaxOf({LayoutAlign(ty.fields[i]) : i \in DOMAIN ty.fields})
    ELSE abi_type_alignment(ty)

LayoutOffset(fields, n) ==
    LeastMultipleFrom(Pow2(LayoutAlign(fields[n])),
                      IF n = 1 THEN 0
                      ELSE LayoutOffset(fields, n - 1) + LayoutSize(fields[n - 1]))

LayoutSize(ty) ==
    IF ty.k = "Struct"
    THEN IF ty.fields = <<>> THEN 0
         ELSE LayoutOffset(ty.fields, Len(ty.fields)) + LayoutSize(ty.fields[Len(ty.fields)])
    ELSE abi_type_sizeof(ty)

ExampleStruct == <<Scalar("Int16"), Scalar("Int32"), Scalar("Int8"), Scalar("UInt8")>>

\* C13: every field starts at the least multiple of its alignment that is not
\* below the end of the field before it, the struct's size is the end of its
\* last field and its alignment exponent the largest of its fields';
\* struct{int16, int32, int8, uint8} has size 10, alignment exponent 2 and
\* offsets 0, 4, 8, 9.
C13_StructLayout ==
    aphase = "done" =>
        /\ Len(aoffsets) = Len(afields)
        /\ \A n \in DOMAIN afields :
              /\ aoffsets[n] = LayoutOffset(afields, n)
              /\ struct_field_offset(afields, n - 1) = aoffsets[n]
        /\ asize = LayoutSize(StructT(afields))
        /\ abi_type_sizeof(StructT(afields)) = asize
        /\ aalign = LayoutAlign(StructT(afields))
        /\ abi_type_alignment(StructT(afields)) = aalign
        /\ afields = ExampleStruct =>
              asize = 10 /\ aalign = 2 /\ aoffsets = <<0, 4, 8, 9>>

\* the layout of struct{int16, int32, int8, uint8} has been computed
C13_Witness == aphase = "done" /\ afields = ExampleStruct /\ asize = 10

\* ---------------------------------------------------------------------------
\* Static memory (staticmem.rs)
\* ---------------------------------------------------------------------------

MaxItems == 3

\* staticmem.rs 53-64: SMValue
SMInt(k, val, sign) == [k |-> k, val |-> val, sign |-> sign]
SMStruct(items) == [k |-> "Struct", items |-> items]
SMBlob(bytes) == [k |-> "Blob", bytes |-> bytes]
SMPtrTo(ref) == [k |-> "PtrTo", ref |-> ref]

RECURSIVE get_item_type(_)
\* staticmem.rs 165-191
get_item_type(item) ==
    CASE item.k = "Int8"  -> Scalar(IF item.sign = "S" THEN "Int8" ELSE "UInt8")
      [] item.k = "Int16" -> Scalar(IF item.sign = "S" THEN "Int16" ELSE "UInt16")
      [] item.k = "Int32" -> Scalar(IF item.sign = "S" THEN "Int32" ELSE "UInt32")
      [] item.k = "Float" -> Scalar("Float32")
      [] item.k = "Struct" ->
            StructT([i \in 1..Len(item.items) |-> get_item_type(item.items[i])])
      [] item.k = "Blob" ->
            StructT([i \in 1..Len(item.bytes) |-> Scalar("UInt8")])
      [] item.k = "PtrTo" -> Scalar("Ptr")

AlignAddressNever(curr_address, align) == curr_address
\* staticmem.rs 92-94
AlignAddress(curr_address, align) ==
    IF curr_address % align # 0
    THEN curr_address + (align - (curr_address % align))
    ELSE curr_address

be_bytes(val, n) == [i \in 1..n |-> (val \div Pow2(8 * (n - i))) % 256]
\* to_le_bytes of an n-byte unsigned integer
le_bytes(val, n) == [i \in 1..n |-> (val \div Pow2(8 * (i - 1))) % 256]

\* Cursor<Vec<u8>>::write_all: overwrite at the position, growing the vector
\* (zero-filled) when the write passes its end, and advance the position
WriteAll(place, bytes) ==
    IF bytes = <<>> THEN place
    ELSE LET end == place.pos + Len(bytes)
             n == IF end > Len(place.buf) THEN end ELSE Len(place.buf)
         IN  [buf |-> [i \in 1..n |->
                          IF i > place.pos /\ i <= end THEN bytes[i - place.pos]
                          ELSE IF i <= Len(place.buf) THEN place.buf[i] ELSE 0],
              pos |-> end]

FieldPlaceAtStart(start_of_struct, offset) == start_of_struct
\* staticmem.rs 144: the position a field is written at
FieldPlace(start_of_struct, offset) == start_of_struct + offset

RECURSIVE write_to_memory(_, _, _), WriteFields(_, _, _, _, _)
\* staticmem.rs 112-163 (Wasm32Abi is little-endian)
write_to_memory(place, item, addresses) ==
    CASE item.k = "Int8"  -> WriteAll(place, <<item.val>>)
      [] item.k = "Int16" -> WriteAll(place, le_bytes(item.val, 2))
      [] item.k = "Int32" -> WriteAll(place, le_bytes(item.val, 4))
      [] item.k = "Float" -> WriteAll(place, le_bytes(item.val, 4))
      [] item.k = "Struct" -> WriteFields(place, place.pos, item.items, 1, addresses)
      [] item.k = "Blob"  -> WriteAll(place, item.bytes)
      [] item.k = "PtrTo" -> WriteAll(place, le_bytes(addresses[item.ref + 1], 4))

\* staticmem.rs 135-147: the fields of a struct, field n (from 1) onwards
WriteFields(place, start_of_struct, items, n, addresses) ==
    IF n > Len(items) THEN place
    ELSE LET fields_types == [i \in 1..Len(items) |-> get_item_type(items[i])]
             offset == struct_field_offset(fields_types, n - 1)
             at == [place EXCEPT !.pos = FieldPlace(start_of_struct, offset)]
         IN  WriteFields(write_to_memory(at, items[n], addresses),
                         start_of_struct, items, n + 1, addresses)

\* the first item of staticmem_test (staticmem.rs 207-215)
TestItem0 ==
    SMStruct(<<SMInt("Int8", 64, "S"), SMInt("Int16", 65535, "U"),
               SMBlob(<<1, 2, 3, 4, 5, 6, 7, 8>>)>>)
\* its second and third items (staticmem.rs 216-234), by the items pointed to
TestItem1(h) == SMStruct(<<SMStruct(<<SMPtrTo(h)>>), SMInt("Int32", 0, "S")>>)
TestItem2(h1, h2) == SMStruct(<<SMInt("Int8", 1, "U"), SMPtrTo(h1), SMPtrTo(h2)>>)

\* the values add_item is called with when the memory holds n items: an
\* SMItemRef comes from an earlier add_item, so it is below n
SMValues(n) ==
    {SMInt("Int8", 200, "U"), SMInt("Int16", 513, "S"), SMInt("Int32", 66051, "U"),
     [k |-> "Float", val |-> 1078530011],
     SMStruct(<<>>), SMBlob(<<7, 9, 11>>), TestItem0}
    \cup {SMPtrTo(h) : h \in 0..(n - 1)}
    \cup {TestItem1(h) : h \in 0..(n - 1)}
    \cup {TestItem2(h1, h2) : h1 \in 0..(n - 1), h2 \in 0..(n - 1)}

SmInit ==
    /\ NumIdle /\ VerIdle /\ CfIdle /\ AbiIdle /\ ModIdle /\ CorIdle /\ RwIdle /\ MetaIdle /\ BldIdle
    /\ sitems = <<>> /\ saddresses = <<>> /\ scur = 0 /\ sbuf = <<>>
    /\ sphase = "build"

\* staticmem.rs 24-27: StaticMemory::add_item
add_item ==
    /\ sphase = "build" /\ Len(sitems) < MaxItems
    /\ \E item \in SMValues(Len(sitems)) : sitems' = Append(sitems, item)
    /\ UNCHANGED <<saddresses, scur, sbuf, sphase, notSm>>

\* staticmem.rs 84-87: compile starts, curr_address = 8
SmCompile ==
    /\ sphase = "build"
    /\ scur' = 8 /\ sphase' = "addr"
    /\ UNCHANGED <<sitems, saddresses, sbuf, notSm>>

\* staticmem.rs 88-97: the address of the next item
SmAssign ==
    /\ sphase = "addr" /\ Len(saddresses) < Len(sitems)
    /\ LET ty == get_item_type(sitems[Len(saddresses) + 1])
           size == abi_type_sizeof(ty)
           align == Pow2(abi_type_alignment(ty))
           at == AlignAddress(scur, align)
       IN  /\ saddresses' = Append(saddresses, at)
           /\ scur' = at + size
    /\ UNCHANGED <<sitems, sbuf, sphase, notSm>>

\* staticmem.rs 100-101: the zero-initialised buffer
SmAlloc ==
    /\ sphase = "addr" /\ Len(saddresses) = Len(sitems)
    /\ sbuf' = [i \in 1..scur |-> 0]
    /\ scur' = 0
    /\ sphase' = "write"
    /\ UNCHANGED <<sitems, saddresses, notSm>>

\* staticmem.rs 103-107: write the next item at its address
SmWrite ==
    /\ sphase = "write" /\ scur < Len(sitems)
    /\ sbuf' = write_to_memory([buf |-> sbuf, pos |-> saddresses[scur + 1]],
                               sitems[scur + 1], saddresses).buf
    /\ scur' = scur + 1
    /\ UNCHANGED <<sitems, saddresses, sphase, notSm>>

\* staticmem.rs 109: CompiledStaticMemory { buf, addresses }
SmReturn ==
    /\ sphase = "write" /\ scur = Len(sitems)
    /\ sphase' = "done"
    /\ UNCHANGED <<sitems, saddresses, scur, sbuf, notSm>>

SmNext == add_item \/ SmCompile \/ SmAssign \/ SmAlloc \/ SmWrite \/ SmReturn

SpecStaticMem == SmInit /\ [][SmNext]_vars

SmSize(i) == LayoutSize(get_item_type(sitems[i]))
SmAlign(i) == Pow2(LayoutAlign(get_item_type(sitems[i])))

\* C14: the first item is at the least multiple of its alignment from 8 on,
\* every address is a multiple of the item's alignment, every later item is
\* at the least aligned address not below the end of the item before it, the
\* byte ranges of distinct items are disjoint, no address is below 8, and the
\* image ends where the last item ends (at 8 when there is no item).
C14_ItemAddresses ==
    /\ sphase \in {"addr", "write", "done"} =>
          \A i \in DOMAIN saddresses :
             /\ saddresses[i] % SmAlign(i) = 0
             /\ saddresses[i] >= 8
             /\ i = 1 => saddresses[i] = LeastMultipleFrom(SmAlign(i), 8)
             /\ i > 1 => saddresses[i] =
                   LeastMultipleFrom(SmAlign(i), saddresses[i - 1] + SmSize(i - 1))
             /\ \A j \in DOMAIN saddresses :
                   i < j => saddresses[i] + SmSize(i) <= saddresses[j]
    /\ sphase \in {"write", "done"} =>
          /\ Len(saddresses) = Len(sitems)
          /\ Len(sbuf) = IF sitems = <<>> THEN 8
                         ELSE saddresses[Len(sitems)] + SmSize(Len(sitems))

\* three items compiled, the second moved up from the end of the first to
\* its alignment
C14_Witness ==
    /\ sphase = "done" /\ Len(sitems) = 3
    /\ saddresses[2] > saddresses[1] + SmSize(1)

RECURSIVE PtrSites(_, _)
\* the PtrTo values of an item at any depth: <<position, item pointed to>>,
\* the position being base plus the offsets of the enclosing fields
PtrSites(item, base) ==
    CASE item.k = "PtrTo" -> {<<base, item.ref>>}
      [] item.k = "Struct" ->
            LET tys == [i \in 1..Len(item.items) |-> get_item_type(item.items[i])]
            IN  UNION {PtrSites(item.items[n], base + LayoutOffset(tys, n)) :
                          n \in 1..Len(item.items)}
      [] OTHER -> {}

RECURSIVE ByteAt(_, _, _)
\* byte j (from 0) of the representation of an item: its fields at their
\* offsets, zero in the padding between them
ByteAt(item, j, addresses) ==
    CASE item.k \in {"Int8", "Int16", "Int32", "Float"} -> (item.val \div Pow2(8 * j)) % 256
      [] item.k = "Blob" -> item.bytes[j + 1]
      [] item.k = "PtrTo" -> (addresses[item.ref + 1] \div Pow2(8 * j)) % 256
      [] item.k = "Struct" ->
            LET tys == [i \in 1..Len(item.items) |-> get_item_type(item.items[i])]
                In(n) == /\ LayoutOffset(tys, n) <= j
                         /\ j < LayoutOffset(tys, n) + LayoutSize(tys[n])
            IN  IF \E n \in 1..Len(item.items) : In(n)
                THEN LET n == CHOOSE n \in 1..Len(item.items) : In(n)
                     IN  ByteAt(item.items[n], j - LayoutOffset(tys, n), addresses)
                ELSE 0

\* C15: in the compiled image every PtrTo(h), at any depth, is the four
\* little-endian bytes of the address of item h, at the item's address plus
\* the offsets of the enclosing fields, and the image from that address on is
\* the representation of item h.
C15_PointersAreAddresses ==
    sphase = "done" =>
        \A i \in DOMAIN sitems :
           \A site \in PtrSites(sitems[i], saddresses[i]) :
              LET p == site[1]
                  h == site[2] + 1
                  a == saddresses[h]
              IN  /\ p + 4 <= Len(sbuf)
                  /\ sbuf[p + 1] + 256 * sbuf[p + 2] + 65536 * sbuf[p + 3]
                        + 16777216 * sbuf[p + 4] = a
                  /\ a + SmSize(h) <= Len(sbuf)
                  /\ \A j \in 0..(SmSize(h) - 1) :
                        sbuf[a + j + 1] = ByteAt(sitems[h], j, saddresses)

\* a compiled image with a pointer inside a nested struct that is not at the
\* start of its item's enclosing struct, and one at a non-zero offset
C15_Witness ==
    /\ sphase = "done"
    /\ \E i \in DOMAIN sitems :
          /\ sitems[i] = TestItem2(0, 0)
          /\ <<saddresses[i] + 8, 0>> \in PtrSites(sitems[i], saddresses[i])
    /\ \E i \in DOMAIN sitems : sitems[i] = TestItem1(0)

TestItems == <<TestItem0, TestItem1(0), TestItem2(1, 0)>>

\* staticmem.rs 237-247
TestImage ==
    <<0, 0, 0, 0, 0, 0, 0, 0,
      64, 0, 255, 255, 1, 2, 3, 4, 5, 6, 7, 8,
      8, 0, 0, 0, 0, 0, 0, 0,
      1, 0, 0, 0, 20, 0, 0, 0, 8, 0, 0, 0>>

\* C16 as stated: the image of the example is 44 bytes long.
C16_ImageIs44Bytes ==
    (sphase = "done" /\ sitems = TestItems) => Len(sbuf) = 44

\* C16: the three items of the example compile to the 40-byte image of
\* staticmem_test, with the pointer fields 8, 20 and 8, one zero byte between
\* the int8 and the 16-bit field, and zero in every byte no item writes.
C16_ExampleImage ==
    (sphase = "done" /\ sitems = TestItems) =>
        /\ Len(sbuf) = 40
        /\ sbuf = TestImage
        /\ saddresses = <<8, 20, 28>>
        /\ SubSeq(sbuf, 21, 24) = <<8, 0, 0, 0>>
        /\ SubSeq(sbuf, 33, 36) = <<20, 0, 0, 0>>
        /\ SubSeq(sbuf, 37, 40) = <<8, 0, 0, 0>>
        /\ sbuf[9] = 64 /\ sbuf[10] = 0 /\ sbuf[11] = 255 /\ sbuf[12] = 255
        /\ \A p \in (1..8) \cup {10} \cup (30..32) : sbuf[p] = 0

\* the example has been compiled
C16_Witness == sphase = "done" /\ sitems = TestItems /\ Len(sbuf) = 40

\* ---------------------------------------------------------------------------
\* The module's functions and globals (module.rs) and their emission (emit.rs)
\* ---------------------------------------------------------------------------

\* the number of distinct function names, and of distinct global names
MaxNames == 3
MaxGlobalNames == 2
MaxGlobalCalls == 3

Names == 1..MaxNames
GlobalNames == 1..MaxGlobalNames

\* IndexMap::contains_key
contains_key(map, name) == \E p \in DOMAIN map : map[p].name = name

\* IndexMap::get
get(map, name) == map[CHOOSE p \in DOMAIN map : map[p].name = name]

\* IndexMap::insert: a new key goes to the end, the value of a key already
\* there is replaced where it is
insert(map, name, value) ==
    IF contains_key(map, name)
    THEN [p \in DOMAIN map |-> IF map[p].name = name THEN value ELSE map[p]]
    ELSE Append(map, value)

NoLocalSeen(funcs) == FALSE
\* module.rs 215: self.functions.values().any(|def| def.is_local())
AnyLocal(funcs) == \E p \in DOMAIN funcs : funcs[p].kind = "Local"

\* module.rs 88-99
add_function ==
    /\ ephase = "build"
    /\ \E name \in Names :
          IF contains_key(mfuncs, name)
          THEN mres' = "panic" /\ UNCHANGED mfuncs
          ELSE /\ mfuncs' = insert(mfuncs, name,
                               [name |-> name, kind |-> "Local", idx |-> Len(mfuncs)])
               /\ mres' = "ok"
    /\ UNCHANGED <<mglobals, mcalls, ephase, epos, eimports, efuncsec, eexports,
                   etable, eglobals, ecode, notMod>>

\* module.rs 211-229
add_extern_function ==
    /\ ephase = "build"
    /\ \E name \in Names :
          IF contains_key(mfuncs, name) \/ AnyLocal(mfuncs)
          THEN mres' = "panic" /\ UNCHANGED mfuncs
          ELSE /\ mfuncs' = insert(mfuncs, name,
                               [name |-> name, kind |-> "Extern", idx |-> Len(mfuncs)])
               /\ mres' = "ok"
    /\ UNCHANGED <<mglobals, mcalls, ephase, epos, eimports, efuncsec, eexports,
                   etable, eglobals, ecode, notMod>>

\* module.rs 196-200
new_global(g) ==
    LET idx == Len(mglobals)
    IN  mglobals' = insert(mglobals, g.name, [g EXCEPT !.idx = idx])

\* module.rs 185-189
new_int_global ==
    /\ ephase = "build" /\ mcalls < MaxGlobalCalls
    /\ \E name \in GlobalNames : new_global([name |-> name, ty |-> "Int32", idx |-> 0])
    /\ mres' = "ok" /\ mcalls' = mcalls + 1
    /\ UNCHANGED <<mfuncs, ephase, epos, eimports, efuncsec, eexports,
                   etable, eglobals, ecode, notMod>>

\* module.rs 192-195
new_float_global ==
    /\ ephase = "build" /\ mcalls < MaxGlobalCalls
    /\ \E name \in GlobalNames : new_global([name |-> name, ty |-> "Float32", idx |-> 0])
    /\ mres' = "ok" /\ mcalls' = mcalls + 1
    /\ UNCHANGED <<mfuncs, ephase, epos, eimports, efuncsec, eexports,
                   etable, eglobals, ecode, notMod>>

RECURSIVE ExternPrefix(_, _)
\* emit.rs 400-404: the functions up to the first that is not Extern
ExternPrefix(funcs, p) ==
    IF p > Len(funcs) \/ funcs[p].kind # "Extern" THEN <<>>
    ELSE <<funcs[p].name>> \o ExternPrefix(funcs, p + 1)

\* emit.rs 398-414
emit_externs(funcs) == ExternPrefix(funcs, 1)

\* emit.rs 382-396: one global-section entry per global, in iteration order
emit_globals(globals) == [p \in DOMAIN globals |-> globals[p].name]

\* emit.rs 451-461: WasmEmitter::visit_module
EmitVisitModule ==
    /\ ephase = "build"
    /\ eglobals' = emit_globals(mglobals)
    /\ eimports' = emit_externs(mfuncs)
    /\ ephase' = "funcs"
    /\ UNCHANGED <<mfuncs, mglobals, mres, mcalls, epos, efuncsec, eexports,
                   etable, ecode, notMod>>

GftValueUnshifted(func_idx) == func_idx
\* emit.rs 160: the value LdGlobalFunc pushes
GftValue(func_idx) == func_idx + 1

\* emit.rs 151-161, 309-314: an instruction that names a function or a global
compile_named(instr) ==
    CASE instr.k = "CallDirect" ->
            [op |-> "Call", n |-> get(mfuncs, instr.name).idx, name |-> instr.name]
      [] instr.k = "LdGlobalFunc" ->
            [op |-> "I32Const", n |-> GftValue(get(mfuncs, instr.name).idx),
             name |-> instr.name]
      [] instr.k = "LdGlobal" ->
            [op |-> "GlobalGet", n |-> get(mglobals, instr.name).idx, name |-> instr.name]
      [] instr.k = "StGlobal" ->
            [op |-> "GlobalSet", n |-> get(mglobals, instr.name).idx, name |-> instr.name]

\* the instructions of a verified function that name a function or a global
NamedInstrs ==
    {[k |-> k, name |-> mfuncs[p].name] :
        k \in {"CallDirect", "LdGlobalFunc"}, p \in DOMAIN mfuncs}
    \cup {[k |-> k, name |-> mglobals[p].name] :
        k \in {"LdGlobal", "StGlobal"}, p \in DOMAIN mglobals}

\* module.rs 162-170 and emit.rs 80-105, 463-470: do_pass reaches the next
\* function; a Local one is compiled, one of its instructions is shown
DoPassStep ==
    /\ ephase = "funcs" /\ epos < Len(mfuncs)
    /\ epos' = epos + 1
    /\ LET func == mfuncs[epos + 1]
       IN  IF func.kind = "Local"
           THEN /\ \E instr \in NamedInstrs : ecode' = compile_named(instr)
                /\ efuncsec' = Append(efuncsec, func.name)
                /\ eexports' = Append(eexports, <<func.name, func.idx>>)
           ELSE UNCHANGED <<ecode, efuncsec, eexports>>
    /\ UNCHANGED <<mfuncs, mglobals, mres, mcalls, ephase, eimports, etable,
                   eglobals, notMod>>

\* emit.rs 355-380
emit_global_function_table(function_count) ==
    [length |-> function_count + 1,
     offset |-> 1,
     elems |-> [i \in 1..function_count |-> i - 1]]

\* emit.rs 472-476: WasmEmitter::end_module
EmitEndModule ==
    /\ ephase = "funcs" /\ epos = Len(mfuncs)
    /\ etable' = emit_global_function_table(Len(mfuncs))
    /\ ephase' = "done"
    /\ UNCHANGED <<mfuncs, mglobals, mres, mcalls, epos, eimports, efuncsec,
                   eexports, eglobals, ecode, notMod>>

ModBuild ==
    /\ NumIdle /\ VerIdle /\ CfIdle /\ AbiIdle /\ SmIdle /\ CorIdle /\ RwIdle /\ MetaIdle /\ BldIdle
    /\ mglobals = <<>> /\ mres = "ok" /\ mcalls = 0
    /\ ephase = "build" /\ epos = 0 /\ eimports = <<>> /\ efuncsec = <<>>
    /\ eexports = <<>> /\ etable = <<>> /\ eglobals = <<>> /\ ecode = <<>>

\* module.rs 60-77: a new module
FuncsInit == ModBuild /\ mfuncs = <<>>

FuncsNext ==
    add_function \/ add_extern_function \/ EmitVisitModule \/ DoPassStep \/ EmitEndModule

SpecFuncs == FuncsInit /\ [][FuncsNext]_vars

\* a module with one function, to which globals are added
GlobalsInit == ModBuild /\ mfuncs = <<[name |-> 1, kind |-> "Local", idx |-> 0]>>

GlobalsNext ==
    new_int_global \/ new_float_global \/ EmitVisitModule \/ DoPassStep \/ EmitEndModule

SpecGlobals == GlobalsInit /\ [][GlobalsNext]_vars

\* WebAssembly's function index space: the imports, then the functions of
\* the function section
WasmFunction(i) ==
    IF i < Len(eimports) THEN eimports[i + 1] ELSE efuncsec[i - Len(eimports) + 1]

WasmFunctionCount == Len(eimports) + Len(efuncsec)

Null == -1

\* entry j of the table after its element segment has been applied
TableEntry(j) ==
    IF j >= etable.offset /\ j < etable.offset + Len(etable.elems)
    THEN etable.elems[j - etable.offset + 1]
    ELSE Null

\* C17: the table has N + 1 entries, entry 0 is empty and entry i + 1 is the
\* function of module index i; LdGlobalFunc{name} pushes index(name) + 1,
\* never 0, and the table entry at that value is the function called name.
C17_GlobalFunctionTable ==
    /\ ephase = "done" =>
          /\ etable.length = Len(mfuncs) + 1
          /\ etable.offset + Len(etable.elems) <= etable.length
          /\ TableEntry(0) = Null
          /\ WasmFunctionCount = Len(mfuncs)
          /\ \A i \in 0..(Len(mfuncs) - 1) :
                /\ TableEntry(i + 1) = i
                /\ WasmFunction(TableEntry(i + 1)) = mfuncs[i + 1].name
                /\ mfuncs[i + 1].idx = i
    /\ (ephase \in {"funcs", "done"} /\ ecode # <<>> /\ ecode.op = "I32Const") =>
          /\ ecode.n # 0
          /\ \E p \in DOMAIN mfuncs :
                mfuncs[p].name = ecode.name /\ ecode.n = (p - 1) + 1
          /\ ephase = "done" =>
                /\ ecode.n < etable.length
                /\ TableEntry(ecode.n) # Null
                /\ WasmFunction(TableEntry(ecode.n)) = ecode.name

\* a module of an extern and two locals has been emitted and the last
\* LdGlobalFunc compiled names the second local
C17_Witness ==
    /\ ephase = "done" /\ Len(mfuncs) = 3
    /\ mfuncs[1].kind = "Extern" /\ mfuncs[2].kind = "Local"
    /\ ecode # <<>> /\ ecode.op = "I32Const" /\ ecode.n = 3

\* C18: function names are pairwise distinct, every Extern precedes every
\* Local, every function's idx is its position in iteration order, which is
\* the index the emitter uses for calls and exports; a rejected call leaves
\* the module as it was.
C18_FunctionOrder ==
    /\ [](/\ \A p, q \in DOMAIN mfuncs : mfuncs[p].name = mfuncs[q].name => p = q
          /\ \A p, q \in DOMAIN mfuncs :
                (mfuncs[p].kind = "Extern" /\ mfuncs[q].kind = "Local") => p < q
          /\ \A p \in DOMAIN mfuncs : mfuncs[p].idx = p - 1
          /\ \A e \in DOMAIN eexports :
                /\ \E p \in DOMAIN mfuncs :
                      mfuncs[p].name = eexports[e][1] /\ eexports[e][2] = p - 1
                /\ WasmFunction(eexports[e][2]) = eexports[e][1]
          /\ (ecode # <<>> /\ ecode.op = "Call") =>
                \E p \in DOMAIN mfuncs :
                   mfuncs[p].name = ecode.name /\ ecode.n = p - 1
          /\ ephase \in {"funcs", "done"} =>
                \A p \in DOMAIN eimports :
                   mfuncs[p].name = eimports[p] /\ mfuncs[p].kind = "Extern")
    /\ [][mres' = "panic" => mfuncs' = mfuncs]_vars
    /\ [][(ephase = "build" /\ mfuncs' # mfuncs) =>
             /\ mres' = "ok"
             /\ SubSeq(mfuncs', 1, Len(mfuncs)) = mfuncs
             /\ Len(mfuncs') = Len(mfuncs) + 1]_vars

\* externs and locals were added, an extern after a local was rejected, and
\* the module has been emitted
C18_Witness ==
    /\ ephase = "done" /\ Len(mfuncs) = 3
    /\ mfuncs[1].kind = "Extern" /\ mfuncs[3].kind = "Local"
    /\ mres = "panic"
    /\ Len(eexports) = 2

\* C19: every global's idx is its position in iteration order, and the index
\* compiled for LdGlobal/StGlobal of a name is that of the global-section
\* entry emitted for that global, below the number of emitted globals.
C19_GlobalIndexIsPosition ==
    /\ \A p \in DOMAIN mglobals : mglobals[p].idx = p - 1
    /\ (ecode # <<>> /\ ecode.op \in {"GlobalGet", "GlobalSet"}) =>
          /\ ecode.n < Len(eglobals)
          /\ eglobals[ecode.n + 1] = ecode.name

\* ---------------------------------------------------------------------------
\* The correction pass (correct.rs)
\* ---------------------------------------------------------------------------

NCorBlocks == 2
MaxCorInstrs == 3

CorBlockIds == 1..NCorBlocks

\* the instructions a body is built from, with their metadata
CorInstrs ==
    {[k |-> "LdInt", meta |-> "a"], [k |-> "Not", meta |-> "b"],
     [k |-> "Return", meta |-> ""], [k |-> "Fail", meta |-> ""],
     [k |-> "Break", meta |-> "c"]}

is_diverging_no_break(i) == i.k \in {"Return", "Fail"}
\* instr.rs 172-177
is_diverging(i) == i.k \in {"Return", "Fail", "Break"}

RECURSIVE fail_instr_pos(_, _)
\* correct.rs 34-40: the position (from 0) of the first diverging instruction
\* at or after n: <<x>> for Some(x), <<>> for None
fail_instr_pos(body, n) ==
    IF n >= Len(body) THEN <<>>
    ELSE IF is_diverging(body[n + 1]) THEN <<n>>
    ELSE fail_instr_pos(body, n + 1)

drain_behind_next(body, x) ==
    SubSeq(body, 1, IF x + 2 <= Len(body) THEN x + 2 ELSE Len(body))
\* correct.rs 42-45: body.drain((x + 1)..)
drain_after(body, x) == SubSeq(body, 1, x + 1)

\* correct.rs 33-46: one block
mutate_block(body) ==
    LET pos == fail_instr_pos(body, 0)
    IN  IF pos # <<>> THEN drain_after(body, pos[1]) ELSE body

RECURSIVE CorInstrCount(_, _)
CorInstrCount(blocks, b) ==
    IF b = 0 THEN 0 ELSE Len(blocks[b].body) + CorInstrCount(blocks, b - 1)

\* instr.rs 243-250, 289-312: a function whose blocks are still empty
CorInit ==
    /\ NumIdle /\ VerIdle /\ CfIdle /\ AbiIdle /\ SmIdle /\ ModIdle /\ RwIdle /\ MetaIdle /\ BldIdle
    /\ kfunc = [blocks |-> [b \in CorBlockIds |->
                               [tag |-> IF b = 1 THEN "Main" ELSE "Loop",
                                ty |-> IF b = 1 THEN <<"Int32">> ELSE <<>>,
                                body |-> <<>>]],
                locals |-> <<"Int32", "Float32">>]
    /\ korig = <<>> /\ kdone = {} /\ kfirst = <<>> /\ kphase = "build"

\* instr.rs 253-255: InstrBlock::add
CorAdd ==
    /\ kphase = "build" /\ CorInstrCount(kfunc.blocks, NCorBlocks) < MaxCorInstrs
    /\ \E b \in CorBlockIds, i \in CorInstrs :
          kfunc' = [kfunc EXCEPT !.blocks[b].body = Append(@, i)]
    /\ UNCHANGED <<korig, kdone, kfirst, kphase, notCor>>

\* correct.rs 17-25: visit_function, nothing to analyse
CorVisit ==
    /\ kphase = "build"
    /\ korig' = kfunc /\ kphase' = "mutate"
    /\ UNCHANGED <<kfunc, kdone, kfirst, notCor>>

\* correct.rs 33-46: the next block of blocks_iter_mut, in the map's order
CorMutateBlock ==
    /\ kphase = "mutate"
    /\ \E b \in CorBlockIds \ kdone :
          /\ kfunc' = [kfunc EXCEPT !.blocks[b].body = mutate_block(@)]
          /\ kdone' = kdone \cup {b}
    /\ UNCHANGED <<korig, kfirst, kphase, notCor>>

\* correct.rs 47: Ok(())
CorReturn ==
    /\ kphase = "mutate" /\ kdone = CorBlockIds
    /\ kphase' = "done"
    /\ UNCHANGED <<kfunc, korig, kdone, kfirst, notCor>>

\* module.rs 172-182: do_mut_pass with the correction pass once more
CorAgain ==
    /\ kphase = "done" /\ kfirst = <<>>
    /\ kfirst' = kfunc /\ korig' = kfunc
    /\ kdone' = {} /\ kphase' = "mutate"
    /\ UNCHANGED <<kfunc, notCor>>

CorNext == CorAdd \/ CorVisit \/ CorMutateBlock \/ CorReturn \/ CorAgain

SpecCorrect == CorInit /\ [][CorNext]_vars

Divergers == {"Return", "Fail", "Break"}

\* C20: a block with a diverging instruction (Return, Fail, Break) becomes
\* its prefix up to and including the earliest one, a block without one
\* keeps its body; the instructions kept, their order and metadata, the tags,
\* the block types and the locals are unchanged.
C20_TruncateAfterDiverging ==
    kphase \in {"mutate", "done"} =>
        /\ kfunc.locals = korig.locals
        /\ DOMAIN kfunc.blocks = DOMAIN korig.blocks
        /\ kphase = "done" => kdone = CorBlockIds
        /\ \A b \in CorBlockIds :
              LET was == korig.blocks[b].body
                  now == kfunc.blocks[b].body
                  D == {n \in DOMAIN was : was[n].k \in Divergers}
              IN  /\ kfunc.blocks[b].tag = korig.blocks[b].tag
                  /\ kfunc.blocks[b].ty = korig.blocks[b].ty
                  /\ b \notin kdone => now = was
                  /\ (b \in kdone /\ D = {}) => now = was
                  /\ (b \in kdone /\ D # {}) =>
                        LET d == CHOOSE n \in D : \A m \in D : n <= m
                        IN  /\ Len(now) = d
                            /\ \A n \in 1..d : now[n] = was[n]
                            /\ now[d].k \in Divergers
                            /\ \A n \in 1..(d - 1) : now[n].k \notin Divergers

\* the pass has cut a block after a Break that had instructions behind it
\* and left a block without diverging instruction as it was
C20_Witness ==
    /\ kphase = "done"
    /\ \E b \in CorBlockIds :
          /\ Len(kfunc.blocks[b].body) < Len(korig.blocks[b].body)
          /\ kfunc.blocks[b].body[Len(kfunc.blocks[b].body)].k = "Break"
    /\ \E b \in CorBlockIds :
          /\ korig.blocks[b].body # <<>>
          /\ kfunc.blocks[b].body = korig.blocks[b].body

\* C21: the pass applied a second time changes nothing, and after the first
\* application no block has an instruction behind a Return, Fail or Break.
C21_CorrectionIdempotent ==
    /\ kfirst # <<>> => kfunc = kfirst
    /\ (kphase = "done" \/ kfirst # <<>>) =>
          \A b \in CorBlockIds :
             \A n \in DOMAIN kfunc.blocks[b].body :
                kfunc.blocks[b].body[n].k \in Divergers =>
                   n = Len(kfunc.blocks[b].body)

\* the second run has ended on a function the first run had shortened
C21_Witness ==
    /\ kphase = "done" /\ kfirst # <<>>
    /\ \E b \in CorBlockIds : kfirst.blocks[b].body # <<>>
    /\ kdone = CorBlockIds
    /\ \E b \in CorBlockIds :
          /\ Len(kfirst.blocks[b].body) = 1
          /\ kfirst.blocks[b].body[1].k = "Fail"

\* ---------------------------------------------------------------------------
\* The instruction rewrite pass (passes/instr_rewrite.rs)
\* ---------------------------------------------------------------------------

\* the number of ranges of a plan
MaxRanges == 2

\* an instruction of the functions the pass runs on, and one of a replacement
OrigInstr(fn, blk, at) == [fn |-> fn, blk |-> blk, at |-> at, meta |-> "m"]
NewInstr(blk, nth, j) == [fn |-> -1, blk |-> blk, at |-> 10 * nth + j, meta |-> "r"]

\* the module: function 0 with one block, function 1 (the target) with a
\* block of three instructions and a block of one
RwFunctions ==
    (0 :> (0 :> <<OrigInstr(0, 0, 0), OrigInstr(0, 0, 1)>>)) @@
    (1 :> ((0 :> <<OrigInstr(1, 0, 0), OrigInstr(1, 0, 1), OrigInstr(1, 0, 2)>>) @@
           (1 :> <<OrigInstr(1, 1, 0)>>)))

target_function_idx == 1

\* the block ids a plan names; the last is no block of the target
RwPlanBlockIds == {0, 1, 2}

\* the ranges start..end a plan gives for a block: any with start <= end up
\* to one past the length of the body
RwRanges(blk) ==
    LET len == IF blk \in DOMAIN RwFunctions[target_function_idx]
               THEN Len(RwFunctions[target_function_idx][blk]) ELSE 0
    IN  {<<st, en>> : st \in 0..(len + 1), en \in 0..(len + 1)}
          \ {r \in (0..(len + 1)) \X (0..(len + 1)) : r[1] > r[2]}

\* the replacements: nothing, or two new instructions
RwNewLens == {0, 2}

PlanSize == IF rwplan = <<>> THEN 0
            ELSE LET RECURSIVE Sum(_)
                     Sum(S) == IF S = {} THEN 0
                               ELSE LET b == CHOOSE b \in S : TRUE
                                    IN  Len(rwplan[b]) + Sum(S \ {b})
                 IN  Sum(DOMAIN rwplan)

RwInit ==
    /\ NumIdle /\ VerIdle /\ CfIdle /\ AbiIdle /\ SmIdle /\ ModIdle /\ CorIdle /\ MetaIdle /\ BldIdle
    /\ rwfuncs = RwFunctions /\ rworig = RwFunctions
    /\ rwplan = <<>> /\ rwmods = <<>> /\ rwdone = {} /\ rwphase = "plan"

\* the caller's HashMap: one more (range, instructions) for a block, blocks
\* in ascending order
RwPlanAdd ==
    /\ rwphase = "plan" /\ PlanSize < MaxRanges
    /\ \E blk \in RwPlanBlockIds : \E r \in RwRanges(blk), n \in RwNewLens :
          /\ \A b \in DOMAIN rwplan : b <= blk
          /\ LET old == IF blk \in DOMAIN rwplan THEN rwplan[blk] ELSE <<>>
                 change == [range |-> r,
                            new |-> [j \in 1..n |-> NewInstr(blk, Len(old) + 1, j)]]
             IN  rwplan' = [b \in DOMAIN rwplan \cup {blk} |->
                               IF b = blk THEN Append(old, change) ELSE rwplan[b]]
    /\ UNCHANGED <<rwfuncs, rworig, rwmods, rwdone, rwphase, notRw>>

is_new_always(bit_set, idx) == TRUE
\* instr_rewrite.rs 41-43: BitSet::insert returns whether the value is new
is_new(bit_set, idx) == idx \notin bit_set

RECURSIVE RangeInsert(_, _, _)
\* instr_rewrite.rs 41-44: the indices idx.. of one range; <<ok, bit_set>>
RangeInsert(bit_set, idx, end) ==
    IF idx >= end THEN <<TRUE, bit_set>>
    ELSE IF ~is_new(bit_set, idx) THEN <<FALSE, bit_set>>
    ELSE RangeInsert(bit_set \cup {idx}, idx + 1, end)

RECURSIVE ChangesDisjoint(_, _, _)
\* instr_rewrite.rs 36-46: the changes of one block, from the n-th on
ChangesDisjoint(changes, n, bit_set) ==
    IF n > Len(changes) THEN TRUE
    ELSE LET res == RangeInsert(bit_set, changes[n].range[1], changes[n].range[2])
         IN  res[1] /\ ChangesDisjoint(changes, n + 1, res[2])

RECURSIVE sort_by_start_reversed(_)
\* instr_rewrite.rs 50-54: a stable sort, the greatest start first
sort_by_start_reversed(changes) ==
    IF changes = <<>> THEN <<>>
    ELSE LET first == CHOOSE n \in DOMAIN changes :
                         /\ \A m \in DOMAIN changes :
                               changes[m].range[1] <= changes[n].range[1]
                         /\ \A m \in 1..(n - 1) :
                               changes[m].range[1] < changes[n].range[1]
             rest == [m \in 1..(Len(changes) - 1) |->
                         IF m < first THEN changes[m] ELSE changes[m + 1]]
         IN  <<changes[first]>> \o sort_by_start_reversed(rest)

\* instr_rewrite.rs 30-57: InstrRewritePass::new
RwNew ==
    /\ rwphase = "plan"
    /\ IF \A blk \in DOMAIN rwplan : ChangesDisjoint(rwplan[blk], 1, {})
       THEN /\ rwmods' = [blk \in DOMAIN rwplan |-> sort_by_start_reversed(rwplan[blk])]
            /\ rwphase' = "ready"
       ELSE /\ rwphase' = "new_err"
            /\ UNCHANGED rwmods
    /\ UNCHANGED <<rwfuncs, rworig, rwplan, rwdone, notRw>>

\* module.rs 172-182, instr_rewrite.rs 70, 82: do_mut_pass goes through the
\* functions before the target: visit is Ok, mutate returns at once
RwPassOther ==
    /\ rwphase = "ready"
    /\ rwphase' = "target"
    /\ UNCHANGED <<rwfuncs, rworig, rwplan, rwmods, rwdone, notRw>>

\* instr_rewrite.rs 65-76: visit_function on the target
RwVisit ==
    /\ rwphase = "target"
    /\ rwphase' = IF \E block_id \in DOMAIN rwmods :
                        block_id \notin DOMAIN rwfuncs[target_function_idx]
                  THEN "visit_err" ELSE "visited"
    /\ UNCHANGED <<rwfuncs, rworig, rwplan, rwmods, rwdone, notRw>>

splice_dropping_tail(body, range, new_instrs) ==
    SubSeq(body, 1, range[1]) \o new_instrs
\* instr_rewrite.rs 99-102: Vec::splice
splice(body, range, new_instrs) ==
    SubSeq(body, 1, range[1]) \o new_instrs \o SubSeq(body, range[2] + 1, Len(body))

RECURSIVE ApplyChanges(_, _, _)
\* instr_rewrite.rs 94-103: the changes of one block, from the n-th on
ApplyChanges(body, modifications, n) ==
    IF n > Len(modifications) THEN [body |-> body, panic |-> FALSE]
    ELSE IF modifications[n].range[2] > Len(body) THEN [body |-> body, panic |-> TRUE]
    ELSE ApplyChanges(splice(body, modifications[n].range, modifications[n].new),
                      modifications, n + 1)

\* instr_rewrite.rs 85-104: the next block of the plan, in the map's order
RwMutateBlock ==
    /\ rwphase = "visited"
    /\ \E block_id \in DOMAIN rwmods \ rwdone :
          LET res == ApplyChanges(rwfuncs[target_function_idx][block_id],
                                  rwmods[block_id], 1)
          IN  /\ rwfuncs' = [rwfuncs EXCEPT ![target_function_idx][block_id] = res.body]
              /\ rwdone' = rwdone \cup {block_id}
              /\ rwphase' = IF res.panic THEN "panic" ELSE "visited"
    /\ UNCHANGED <<rworig, rwplan, rwmods, notRw>>

\* instr_rewrite.rs 106: Ok(())
RwReturn ==
    /\ rwphase = "visited" /\ rwdone = DOMAIN rwmods
    /\ rwphase' = "done"
    /\ UNCHANGED <<rwfuncs, rworig, rwplan, rwmods, rwdone, notRw>>

RwNext == RwPlanAdd \/ RwNew \/ RwPassOther \/ RwVisit \/ RwMutateBlock \/ RwReturn

SpecRewrite == RwInit /\ [][RwNext]_vars

\* the phases in which mutate_function has or may have changed the target
RwRan == {"visited", "panic", "done"}

\* whether the original index at lies in a range of the plan for the block
InSomeRange(blk, at) ==
    /\ blk \in DOMAIN rwplan
    /\ \E n \in DOMAIN rwplan[blk] :
          rwplan[blk][n].range[1] <= at /\ at < rwplan[blk][n].range[2]

\* C22: an empty plan leaves every function as it was; with any plan that
\* new accepted, the instructions whose original index is in no range are
\* present, in their order and with their metadata, and the blocks without
\* plan entry and the functions other than the target are untouched.
C22_UnmodifiedInstructionsKept ==
    /\ (rwphase = "done" /\ rwplan = <<>>) => rwfuncs = rworig
    /\ rwphase \in RwRan =>
          /\ \A fn \in DOMAIN rworig :
                fn # target_function_idx => rwfuncs[fn] = rworig[fn]
          /\ DOMAIN rwfuncs[target_function_idx] = DOMAIN rworig[target_function_idx]
          /\ \A blk \in DOMAIN rworig[target_function_idx] :
                LET was == rworig[target_function_idx][blk]
                    now == rwfuncs[target_function_idx][blk]
                    Kept(i) == i.fn = target_function_idx /\ ~InSomeRange(blk, i.at)
                IN  /\ blk \notin DOMAIN rwplan => now = was
                    /\ SelectSeq(now, Kept) = SelectSeq(was, Kept)

\* the pass has ended after replacing the first instruction of block 0 and
\* inserting behind its last, block 1 having no plan entry
C22_Witness ==
    /\ rwphase = "done" /\ DOMAIN rwplan = {0} /\ Len(rwplan[0]) = 2
    /\ rwplan[0][1].range = <<0, 1>> /\ rwplan[0][2].range = <<3, 3>>
    /\ Len(rwplan[0][2].new) = 2
    /\ Len(rwfuncs[target_function_idx][0]) > 3

RECURSIVE Orders(_)
Orders(S) ==
    IF S = {} THEN {<<>>}
    ELSE UNION {{<<x>> \o p : p \in Orders(S \ {x})} : x \in S}

RECURSIVE Simultaneous(_, _, _, _)
\* the replacement computed on the original indices, from index at on: the
\* replacements of the ranges starting here, in the order ord, then the
\* original instruction unless a range covers it
Simultaneous(was, changes, ord, at) ==
    LET StartsHere(n) == changes[ord[n]].range[1] = at
        RECURSIVE Here(_)
        Here(n) == IF n > Len(ord) THEN <<>>
                   ELSE (IF StartsHere(n) THEN changes[ord[n]].new ELSE <<>>) \o Here(n + 1)
        covered == \E n \in DOMAIN changes :
                      changes[n].range[1] <= at /\ at < changes[n].range[2]
    IN  IF at > Len(was) THEN <<>>
        ELSE Here(1)
             \o (IF at < Len(was) /\ ~covered THEN <<was[at + 1]>> ELSE <<>>)
             \o Simultaneous(was, changes, ord, at + 1)

\* C23: for every plan new accepts, the body of a rewritten block is the
\* simultaneous replacement computed on the original indices (ranges with
\* the same start taken in some order).
C23_SimultaneousReplacement ==
    rwphase = "done" =>
        \A blk \in DOMAIN rwplan :
           \E ord \in Orders(DOMAIN rwplan[blk]) :
              rwfuncs[target_function_idx][blk] =
                 Simultaneous(rworig[target_function_idx][blk], rwplan[blk], ord, 0)

\* two ranges of one block share an index
SharesIndex(changes) ==
    \E n, m \in DOMAIN changes :
       /\ n # m
       /\ \E at \in 0..8 :
             /\ changes[n].range[1] <= at /\ at < changes[n].range[2]
             /\ changes[m].range[1] <= at /\ at < changes[m].range[2]

\* C24: new fails exactly when two ranges of a block overlap; a plan that
\* names a block the target does not have fails at visit, the function being
\* as it was.
C24_PlanRejection ==
    /\ rwphase = "new_err" => \E blk \in DOMAIN rwplan : SharesIndex(rwplan[blk])
    /\ rwphase \notin {"plan", "new_err"} =>
          \A blk \in DOMAIN rwplan : ~SharesIndex(rwplan[blk])
    /\ rwphase \in {"new_err", "visit_err"} => rwfuncs = rworig
    /\ rwphase = "visit_err" =>
          \E blk \in DOMAIN rwplan : blk \notin DOMAIN rworig[target_function_idx]
    /\ rwphase \in RwRan =>
          \A blk \in DOMAIN rwplan : blk \in DOMAIN rworig[target_function_idx]

\* a plan with a range for block 0 and one for a block that does not exist
\* has failed at visit
C24_Witness ==
    /\ rwphase = "visit_err" /\ DOMAIN rwplan = {0, 2}
    /\ rwplan[0][1].range = <<0, 2>>

\* two overlapping ranges given in ascending order have been refused
C24_WitnessOverlap ==
    /\ rwphase = "new_err" /\ DOMAIN rwplan = {0}
    /\ rwplan[0][1].range = <<0, 2>> /\ rwplan[0][2].range = <<1, 3>>

\* ---------------------------------------------------------------------------
\* The verifier on calls and GetFieldPtr (verify.rs) and their emission
\* ---------------------------------------------------------------------------

MaxCallBody == 4

\* the interned function types of the module: name of the type -> signature
FuncSig ==
    ("Fn(Int32,Float32)->(Int32)" :> [args |-> <<"Int32", "Float32">>, ret |-> <<"Int32">>]) @@
    ("Fn(Int32)->(Int32,Float32)" :> [args |-> <<"Int32">>, ret |-> <<"Int32", "Float32">>]) @@
    ("Fn()->()" :> [args |-> <<>>, ret |-> <<>>])

is_func(t) == t \in DOMAIN FuncSig

\* Module.functions: name -> ty()
ModuleFunctions ==
    ("f" :> "Fn(Int32,Float32)->(Int32)") @@
    ("g" :> "Fn(Int32)->(Int32,Float32)") @@
    ("h" :> "Fn()->()")

\* module.rs 103-105
get_function(name) == IF name \in DOMAIN ModuleFunctions THEN ModuleFunctions[name] ELSE None

RECURSIVE PopArgs(_, _, _)
\* verify.rs 190-199, 241-250: for &arg in args, from the n-th on: pop a
\* value and compare it with arg
PopArgs(args, n, st) ==
    IF n > Len(args) THEN Cont(st, NoMeta)
    ELSE IF Len(st) = 0 THEN Fails("StackUnderflow", st)
    ELSE IF args[n] # Top(st) THEN Fails("InvalidType", Pop(st))
    ELSE PopArgs(args, n + 1, Pop(st))

\* verify.rs 183-204
VerifyCallDirect(func_name, st) ==
    IF get_function(func_name) = None THEN Fails("UndefinedFunctionCall", st)
    ELSE LET sig == FuncSig[get_function(func_name)]
             r == PopArgs(sig.args, 1, st)
         IN  IF r.res # "Running" THEN r ELSE Cont(r.stack \o sig.ret, NoMeta)

\* verify.rs 205-208
VerifyLdLocal(idx, locals, st) ==
    IF local_ty(locals, idx) = None THEN Fails("OutOfBoundsLocalIndex", st)
    ELSE Cont(Append(st, local_ty(locals, idx)), NoMeta)

\* verify.rs 226-235
VerifyLdGlobalFunc(func_name, st) ==
    IF get_function(func_name) = None THEN Fails("UndefinedFunctionCall", st)
    ELSE Cont(Append(st, get_function(func_name)), NoMeta)

\* verify.rs 236-258
VerifyCallIndirect(st) ==
    IF Len(st) = 0 THEN Fails("StackUnderflow", st)
    ELSE LET func == Top(st)
         IN  IF ~is_func(func) THEN Fails("InvalidTypeCallIndirect", Pop(st))
             ELSE LET r == PopArgs(FuncSig[func].args, 1, Pop(st))
                  IN  IF r.res # "Running" THEN r
                      ELSE Cont(r.stack \o FuncSig[func].ret, [NoMeta EXCEPT !.ty = func])

\* verify.rs 374-397
VerifyGetFieldPtr(struct_ty, field_idx, st) ==
    IF struct_ty.k # "Struct" THEN Fails("GetFieldPtrExpectedStructType", st)
    ELSE LET struct_field_count == Len(struct_ty.fields)
         IN  IF field_idx > struct_field_count THEN Fails("OutOfBoundsStructIndex", st)
             ELSE IF Len(st) = 0 THEN Fails("StackUnderflow", st)
             ELSE IF ~is_ptr(Top(st)) THEN Fails("InvalidType", Pop(st))
             ELSE Cont(Append(Pop(st), "Ptr"), NoMeta)

\* one iteration of the loop over block.body
VStepCall(instr, r) ==
    /\ vres = "Running"
    /\ Len(vbody) < MaxCallBody
    /\ vbody' = Append(vbody, instr)
    /\ vinfo' = Append(vinfo, r.meta)
    /\ vstack' = r.stack
    /\ vres' = r.res
    /\ verr' = r.err
    /\ UNCHANGED <<vret, vblockret, vfunc, notVer>>

CallNames == {"f", "g", "h", "undefined"}

\* the struct types GetFieldPtr is given, and a type that is no struct
FieldPtrTypes ==
    {StructT(<<Scalar("Int8"), Scalar("Int32")>>), StructT(<<>>), Scalar("Int32")}

VLdInt32 == VStepCall([k |-> "LdInt", val |-> <<0, 1>>, ty |-> "Int32"],
                      VerifyLdInt(<<0, 1>>, "Int32", vstack))

VLdFloatCall == VStepCall([k |-> "LdFloat"], VerifyLdFloat(vstack))

VLdLocal == \E idx \in {2, 3} :
    VStepCall([k |-> "LdLocal", idx |-> idx], VerifyLdLocal(idx, vfunc.locals, vstack))

VCallDirect == \E func_name \in CallNames :
    VStepCall([k |-> "CallDirect", func_name |-> func_name],
              VerifyCallDirect(func_name, vstack))

VLdGlobalFunc == \E func_name \in CallNames :
    VStepCall([k |-> "LdGlobalFunc", func_name |-> func_name],
              VerifyLdGlobalFunc(func_name, vstack))

VCallIndirect == VStepCall([k |-> "CallIndirect"], VerifyCallIndirect(vstack))

VGetFieldPtr == \E struct_ty \in FieldPtrTypes, field_idx \in 0..3 :
    VStepCall([k |-> "GetFieldPtr", struct_ty |-> struct_ty, field_idx |-> field_idx],
              VerifyGetFieldPtr(struct_ty, field_idx, vstack))

\* abi.rs 75-78: struct_calc_algorithm(..).0[field_n], an index out of the
\* vector's bounds panics
FieldOffsetDefined(struct_ty, field_idx) ==
    field_idx + 1 \in DOMAIN struct_calc_algorithm(struct_ty.fields)[1]

\* emit.rs 287-302: the emitter on the GetFieldPtr instructions of the
\* accepted block
VEmitFieldPtrs ==
    /\ vres = "Ok" /\ verr = "end"
    /\ vres' = IF \A n \in DOMAIN vbody :
                     vbody[n].k = "GetFieldPtr" =>
                        FieldOffsetDefined(vbody[n].struct_ty, vbody[n].field_idx)
               THEN "Emitted" ELSE "EmitPanic"
    /\ UNCHANGED <<vret, vblockret, vbody, vinfo, vstack, verr, vfunc, notVer>>

CallsInit ==
    /\ NumIdle /\ CfIdle /\ ExtIdle
    /\ vret = <<>>
    /\ vblockret \in {<<>>, <<"Int32">>}
    /\ vfunc = [blocks |-> <<>>, locals |-> <<"Int32", "Float32", "Ptr">>, argc |-> 0]
    /\ vbody = <<>> /\ vinfo = <<>>
    /\ vstack = <<>>
    /\ vres = "Running" /\ verr = ""

CallsNext ==
    \/ VLdInt32 \/ VLdFloatCall \/ VLdLocal \/ VCallDirect \/ VLdGlobalFunc
    \/ VCallIndirect \/ VGetFieldPtr \/ VEndBlock \/ VEmitFieldPtrs

SpecCalls == CallsInit /\ [][CallsNext]_vars

\* the stack ends with the types tys, the first deepest
EndsWith(st, tys) ==
    /\ Len(st) >= Len(tys)
    /\ SubSeq(st, Len(st) - Len(tys) + 1, Len(st)) = tys

DropLast(st, n) == SubSeq(st, 1, Len(st) - n)

\* the instruction the step appends, when it appends one
Appends(k) ==
    /\ Len(vbody') = Len(vbody) + 1
    /\ vbody'[Len(vbody')].k = k

\* C28: a CallDirect or CallIndirect is accepted exactly when the stack
\* (below the function value, for CallIndirect) ends with the callee's
\* argument types in declaration order, the first deepest and the last on
\* top, as the emitted call consumes them; the return types are then pushed
\* in declaration order.
C28_CallArgumentOrder ==
    /\ [][(Appends("CallDirect")
           /\ vbody'[Len(vbody')].func_name \in DOMAIN ModuleFunctions) =>
             LET sig == FuncSig[ModuleFunctions[vbody'[Len(vbody')].func_name]]
             IN  /\ (vres' = "Running") <=> EndsWith(vstack, sig.args)
                 /\ vres' = "Running" =>
                       vstack' = DropLast(vstack, Len(sig.args)) \o sig.ret]_vars
    /\ [][(Appends("CallIndirect") /\ vstack # <<>> /\ is_func(Top(vstack))) =>
             LET sig == FuncSig[Top(vstack)]
             IN  /\ (vres' = "Running") <=> EndsWith(Pop(vstack), sig.args)
                 /\ vres' = "Running" =>
                       vstack' = DropLast(Pop(vstack), Len(sig.args)) \o sig.ret]_vars

\* C29: an accepted GetFieldPtr names a struct type and a field index below
\* the number of its fields, so that the emitter's field offset is defined.
C29_FieldIndexInBounds ==
    /\ \A n \in DOMAIN vbody :
          (vbody[n].k = "GetFieldPtr" /\ (n < Len(vbody) \/ vres # "Err")) =>
             /\ vbody[n].struct_ty.k = "Struct"
             /\ vbody[n].field_idx < Len(vbody[n].struct_ty.fields)
    /\ vres # "EmitPanic"

\* ---------------------------------------------------------------------------
\* The peephole pass (passes/peephole_opt.rs) followed by the rewrite pass
\* ---------------------------------------------------------------------------

\* the number of instructions of the function the passes run on
MaxPhInstrs == 4

PhBlockIds == {0, 1}

\* the verifier's transfer function of an instruction of these bodies
VerifyInstr(i, st) ==
    CASE i.k = "LdInt" -> VerifyLdInt(<<0, 1>>, "Int32", st)
      [] i.k = "LdFloat" -> VerifyLdFloat(st)
      [] i.k = "LdGlobalFunc" -> VerifyLdGlobalFunc(i.func_name, st)
      [] i.k = "CallIndirect" -> VerifyCallIndirect(st)
      [] i.k = "CallDirect" -> VerifyCallDirect(i.func_name, st)

RECURSIVE VerifyFrom(_, _, _)
\* verify.rs 48-53: the loop over the body from the n-th instruction on
VerifyFrom(body, n, st) ==
    IF n > Len(body) THEN Cont(st, NoMeta)
    ELSE LET r == VerifyInstr(body[n], st)
         IN  IF r.res # "Running" THEN r ELSE VerifyFrom(body, n + 1, r.stack)

VerifyBody(body) == VerifyFrom(body, 1, <<>>)

\* the instructions the function is built from
PhInstrs ==
    {[k |-> "LdInt"], [k |-> "LdFloat"], [k |-> "CallIndirect"],
     [k |-> "CallDirect", func_name |-> "h"]}
    \cup {[k |-> "LdGlobalFunc", func_name |-> n] : n \in {"f", "g", "h"}}

RECURSIVE PhCount(_)
PhCount(S) == IF S = {} THEN 0
              ELSE LET b == CHOOSE b \in S : TRUE
                   IN  Len(rwfuncs[target_function_idx][b]) + PhCount(S \ {b})

PhInit ==
    /\ NumIdle /\ VerIdle /\ CfIdle /\ AbiIdle /\ SmIdle /\ ModIdle /\ CorIdle /\ MetaIdle /\ BldIdle
    /\ rwfuncs = (0 :> RwFunctions[0]) @@ (1 :> [b \in PhBlockIds |-> <<>>])
    /\ rworig = <<>> /\ rwplan = <<>> /\ rwmods = <<>> /\ rwdone = {}
    /\ rwphase = "build"

\* builder.rs 108-113 and verify.rs 48-53, 257: one more instruction of a
\* block, the block still passing the verifier, which leaves the metadata
PhEmit ==
    /\ rwphase = "build" /\ PhCount(PhBlockIds) < MaxPhInstrs
    /\ \E b \in PhBlockIds, i \in PhInstrs :
          LET body == rwfuncs[target_function_idx][b]
              r == VerifyInstr(i, VerifyBody(body).stack)
          IN  /\ \A c \in PhBlockIds : c > b => rwfuncs[target_function_idx][c] = <<>>
              /\ r.res = "Running"
              /\ rwfuncs' = [rwfuncs EXCEPT ![target_function_idx][b] =
                                Append(body, i @@ [meta |-> r.meta])]
    /\ UNCHANGED <<rworig, rwplan, rwmods, rwdone, rwphase, notRw>>

SomeInstrs(v) == [some |-> TRUE, v |-> v]
NoInstrs == [some |-> FALSE, v |-> <<>>]

replace_2_without_meta(i1, i2) ==
    IF i1.k = "LdGlobalFunc" /\ i2.k = "CallIndirect"
    THEN SomeInstrs(<<[k |-> "CallDirect", func_name |-> i1.func_name, meta |-> NoMeta]>>)
    ELSE NoInstrs
\* peephole_opt.rs 17-32
replace_2(i1, i2) ==
    IF i1.k = "LdGlobalFunc" /\ i2.k = "CallIndirect"
    THEN LET meta == i2.meta
         IN  SomeInstrs(<<[k |-> "CallDirect", func_name |-> i1.func_name, meta |-> meta]>>)
    ELSE NoInstrs

\* peephole_opt.rs 35-49: every rule is commented out
replace_3(i1, i2, i3) == NoInstrs

RECURSIVE this_block_replacements(_, _)
\* peephole_opt.rs 66-82: for i in 0..block.body.len(), from i on
this_block_replacements(body, i) ==
    IF i >= Len(body) THEN <<>>
    ELSE LET two == IF i + 1 < Len(body)
                    THEN replace_2(body[i + 1], body[i + 2]) ELSE NoInstrs
             three == IF i + 2 < Len(body)
                      THEN replace_3(body[i + 1], body[i + 2], body[i + 3]) ELSE NoInstrs
         IN  (IF two.some THEN <<[range |-> <<i, i + 2>>, new |-> two.v] >> ELSE <<>>)
             \o (IF three.some THEN <<[range |-> <<i, i + 3>>, new |-> three.v] >> ELSE <<>>)
             \o this_block_replacements(body, i + 1)

\* peephole_opt.rs 57-91 and lib.rs 52-55: PeepholeOpt::visit_function
PhVisit ==
    /\ rwphase = "build"
    /\ LET func == rwfuncs[target_function_idx]
           found == {b \in DOMAIN func : this_block_replacements(func[b], 0) # <<>>}
       IN  rwplan' = [b \in found |-> this_block_replacements(func[b], 0)]
    /\ rworig' = rwfuncs
    /\ rwphase' = "plan"
    /\ UNCHANGED <<rwfuncs, rwmods, rwdone, notRw>>

\* lib.rs 52-59: the pipeline's optimisation step
PhNext == PhEmit \/ PhVisit \/ RwNew \/ RwPassOther \/ RwVisit \/ RwMutateBlock \/ RwReturn

SpecPeephole == PhInit /\ [][PhNext]_vars

IsPair(body, n) ==
    /\ n < Len(body)
    /\ body[n].k = "LdGlobalFunc" /\ body[n + 1].k = "CallIndirect"

RECURSIVE Collapsed(_, _)
\* the body from the n-th instruction on, every pair LdGlobalFunc{name},
\* CallIndirect made one CallDirect{name} with the CallIndirect's metadata
Collapsed(body, n) ==
    IF n > Len(body) THEN <<>>
    ELSE IF IsPair(body, n)
    THEN <<[k |-> "CallDirect", func_name |-> body[n].func_name,
            meta |-> body[n + 1].meta]>> \o Collapsed(body, n + 2)
    ELSE <<body[n]>> \o Collapsed(body, n + 1)

\* C25: after the peephole pass and the rewrite pass every adjacent pair
\* LdGlobalFunc{name}, CallIndirect of a verified function is one
\* CallDirect{name} with the metadata of the CallIndirect, no such pair is
\* left, the other instructions are as before, the body has the same effect
\* on the verifier's stack, and neither pass fails.
C25_IndirectCallsMadeDirect ==
    /\ rwphase \notin {"new_err", "visit_err", "panic"}
    /\ (rwphase = "done" /\ rworig # <<>>) =>
          /\ rwfuncs[0] = rworig[0]
          /\ \A b \in PhBlockIds :
                LET was == rworig[target_function_idx][b]
                    now == rwfuncs[target_function_idx][b]
                IN  /\ now = Collapsed(was, 1)
                    /\ \A n \in DOMAIN now : ~IsPair(now, n)
                    /\ VerifyBody(now).res = "Running"
                    /\ VerifyBody(now).stack = VerifyBody(was).stack

\* a body LdInt, LdGlobalFunc g, CallIndirect has become LdInt, CallDirect g
\* with the function type the verifier had left on the CallIndirect
C25_Witness ==
    /\ rwphase = "done" /\ rworig # <<>>
    /\ \E b \in PhBlockIds :
          /\ Len(rworig[target_function_idx][b]) = 3 /\ IsPair(rworig[target_function_idx][b], 2)
          /\ rworig[target_function_idx][b][2].func_name = "g"
          /\ Len(rwfuncs[target_function_idx][b]) = 2
          /\ rwfuncs[target_function_idx][b][2].k = "CallDirect"
          /\ rwfuncs[target_function_idx][b][2].meta.ty = "Fn(Int32)->(Int32,Float32)"

\* ---------------------------------------------------------------------------
\* The metadata channel (metadata.rs)
\* ---------------------------------------------------------------------------

\* the number of inserts into one channel
MaxInserts == 3

MetaKeys == {"x", "greeting", "y"}

\* the dynamic types of the values, as std::any::TypeId tells them apart
MetaTypes == {"usize", "String"}

MetaValues ==
    {[ty |-> "usize", v |-> n] : n \in {12, 13}}
    \cup {[ty |-> "String", v |-> t] : t \in {"Hello, world!", "Hi"}}

\* metadata.rs 89-91: Metadata::new
MetaInit ==
    /\ NumIdle /\ VerIdle /\ CfIdle /\ AbiIdle /\ SmIdle /\ ModIdle /\ CorIdle
    /\ RwIdle /\ BldIdle
    /\ mtlist = <<>> /\ mtlast = [k \in MetaKeys |-> <<>>]
    /\ mtkey = <<>> /\ mtret = <<>>

\* metadata.rs 99-108: the new node is the first, the old first its next
insert_node(list, name, value) ==
    <<[key |-> name, ty |-> value.ty, val |-> value.v]>> \o list

RECURSIVE find_value_oldest_from(_, _, _)
find_value_oldest_from(list, n, key) ==
    IF n = 0 THEN <<>>
    ELSE IF list[n].key = key THEN <<list[n]>>
    ELSE find_value_oldest_from(list, n - 1, key)

RECURSIVE find_value_from(_, _, _)
\* metadata.rs 111-121: the loop, current being the n-th node
find_value_from(list, n, key) ==
    IF list[n].key = key THEN <<list[n]>>
    ELSE IF n < Len(list) THEN find_value_from(list, n + 1, key)
    ELSE <<>>

find_value_oldest(list, key) == find_value_oldest_from(list, Len(list), key)
\* metadata.rs 110-122, called with the first node
find_value(list, key) == find_value_from(list, 1, key)

\* Any::downcast_ref::<T>
downcast_ref(obj, T) == IF obj.ty = T THEN <<obj.val>> ELSE <<>>

\* metadata.rs 124-137
retrieve(list, name, T) ==
    IF list = <<>> THEN <<>>
    ELSE LET retrieved == find_value(list, name)
         IN  IF retrieved # <<>> THEN downcast_ref(retrieved[1], T) ELSE <<>>

\* metadata.rs 99-108
MetaInsert ==
    /\ Len(mtlist) < MaxInserts
    /\ mtlast # <<>>
    /\ \E name \in MetaKeys, value \in MetaValues :
          /\ mtlist' = insert_node(mtlist, name, value)
          /\ mtlast' = [mtlast EXCEPT ![name] = <<value>>]
          /\ mtkey' = <<name>>
    /\ mtret' = <<>>
    /\ UNCHANGED notMeta

\* metadata.rs 124-137
MetaRetrieve ==
    /\ mtlast # <<>>
    /\ \E name \in MetaKeys, T \in MetaTypes :
          mtret' = [name |-> name, ty |-> T, ret |-> retrieve(mtlist, name, T)]
    /\ UNCHANGED <<mtlist, mtlast, mtkey, notMeta>>

MetaNext == MetaInsert \/ MetaRetrieve

SpecMeta == MetaInit /\ [][MetaNext]_vars

\* C26: retrieve<T>(k) gives the value of the latest insert under k when that
\* value is a T, and None when nothing was inserted under k; an insert under
\* one key leaves what retrieve gives for every other key as it was.
C26_RetrieveLatestInsert ==
    /\ [](mtret # <<>> =>
            LET last == mtlast[mtret.name]
            IN  /\ last = <<>> => mtret.ret = <<>>
                /\ (last # <<>> /\ last[1].ty = mtret.ty) => mtret.ret = <<last[1].v>>)
    /\ [][mtlast # <<>> =>
            \A k \in MetaKeys, T \in MetaTypes :
                mtkey' # <<k>> => retrieve(mtlist', k, T) = retrieve(mtlist, k, T)]_vars

\* a second insert under "x" was made, another key was inserted after it, and
\* retrieve::<usize>("x") gave the second value
C26_Witness ==
    /\ Len(mtlist) = 3
    /\ mtlist[3].key = "x" /\ mtlist[3].ty = "usize" /\ mtlist[3].val = 12
    /\ mtlist[2].key = "x" /\ mtlist[2].ty = "usize" /\ mtlist[2].val = 13
    /\ mtlist[1].key = "greeting"
    /\ mtret # <<>> /\ mtret.name = "x" /\ mtret.ty = "usize" /\ mtret.ret = <<13>>

\* ---------------------------------------------------------------------------
\* The function builder (builder.rs)
\* ---------------------------------------------------------------------------

\* the number of calls made on a builder between new and finish
MaxBldCalls == 3

BldArguments == {<<>>, <<"Int32">>, <<"Float32", "Int32">>}
BldReturns == {<<>>, <<"Int32">>}
BldTypes == {"Int32", "Float32"}
BldTags == {"IfElse", "Loop"}
BldKinds == {"IAdd", "Break"}

\* the name of the function being built
BldName == 1

\* builder.rs 23-49: FunctionBuilder::new, and module.rs 60-77 for the module
BldInit ==
    /\ NumIdle /\ VerIdle /\ CfIdle /\ AbiIdle /\ SmIdle /\ ModIdle /\ CorIdle
    /\ RwIdle /\ MetaIdle
    /\ \E arguments \in BldArguments, returns \in BldReturns :
          /\ bblocks = (0 :> [returns |-> returns, instrs |-> <<>>, tag |-> "Main"])
          /\ blocals = arguments
          /\ bargc = Len(arguments)
          /\ bret = returns
          /\ bcalls = <<[op |-> "new", arguments |-> arguments, returns |-> returns]>>
    /\ bnext = 1 /\ bcur = 0 /\ bmod = <<>> /\ bphase = "building"

BldOpen == bphase = "building" /\ Len(bcalls) <= MaxBldCalls

\* builder.rs 57-60
new_local ==
    /\ BldOpen
    /\ \E ty \in BldTypes :
          /\ blocals' = Append(blocals, ty)
          /\ bcalls' = Append(bcalls, [op |-> "new_local", ty |-> ty])
    /\ UNCHANGED <<bblocks, bnext, bcur, bargc, bret, bmod, bphase, notBld>>

\* builder.rs 62-69
new_block ==
    /\ BldOpen
    /\ \E returns \in BldReturns, tag \in BldTags :
          LET new_block_id == bnext
          IN  /\ bnext' = bnext + 1
              /\ bblocks' = (new_block_id :> [returns |-> returns, instrs |-> <<>>,
                                              tag |-> tag]) @@ bblocks
              /\ bcalls' = Append(bcalls, [op |-> "new_block", returns |-> returns,
                                           tag |-> tag])
    /\ UNCHANGED <<bcur, blocals, bargc, bret, bmod, bphase, notBld>>

\* builder.rs 71-74: the assertion fails for the id of no block
switch_block ==
    /\ BldOpen
    /\ \E new_current_block \in 0..bnext :
          /\ bcalls' = Append(bcalls, [op |-> "switch_block", id |-> new_current_block])
          /\ IF new_current_block \in DOMAIN bblocks
             THEN bcur' = new_current_block /\ UNCHANGED bphase
             ELSE bphase' = "panic" /\ UNCHANGED bcur
    /\ UNCHANGED <<bblocks, bnext, blocals, bargc, bret, bmod, notBld>>

push_to_entry(blocks, curr_block, i) ==
    [blocks EXCEPT ![0].instrs = Append(@, [kind |-> i, meta |-> <<>>])]
\* builder.rs 108-111
push(blocks, curr_block, i) ==
    [blocks EXCEPT ![curr_block].instrs = Append(@, [kind |-> i, meta |-> <<>>])]

\* builder.rs 106-113: InstrBuilder::instr
instr ==
    /\ BldOpen
    /\ \E i \in BldKinds :
          /\ bblocks' = push(bblocks, bcur, i)
          /\ bcalls' = Append(bcalls, [op |-> "instr", kind |-> i])
    /\ UNCHANGED <<bnext, bcur, blocals, bargc, bret, bmod, bphase, notBld>>

\* builder.rs 84-91: the blocks of the function
BuildBlocks(blocks) ==
    [id \in DOMAIN blocks |->
        [idx |-> id,
         block_ty |-> [args |-> <<>>, ret |-> blocks[id].returns],
         tag |-> blocks[id].tag,
         body |-> blocks[id].instrs]]

\* builder.rs 81-103: finish, and module.rs 88-99: add_function
finish ==
    /\ bphase = "building"
    /\ LET func == [name |-> BldName,
                    ty |-> [args |-> SubSeq(blocals, 1, bargc), ret |-> bret],
                    blocks |-> BuildBlocks(bblocks),
                    all_locals_types |-> blocals,
                    idx |-> Len(bmod)]
       IN  IF contains_key(bmod, BldName)
           THEN bphase' = "panic" /\ UNCHANGED bmod
           ELSE bmod' = insert(bmod, BldName, func) /\ bphase' = "finished"
    /\ UNCHANGED <<bblocks, bnext, bcur, blocals, bargc, bret, bcalls, notBld>>

BldNext == new_local \/ new_block \/ switch_block \/ instr \/ finish

SpecBuilder == BldInit /\ [][BldNext]_vars

\* the calls of one operation, in order
CallsOf(op) == LET Is(c) == c.op = op IN SelectSeq(bcalls, Is)

\* the block that was current when the n-th call was made: the block of the
\* latest switch_block before it, the entry block if there was none
CurrentAt(n) ==
    LET before == {m \in 1..(n - 1) : bcalls[m].op = "switch_block"}
    IN  IF before = {} THEN 0
        ELSE bcalls[CHOOSE m \in before : \A o \in before : o <= m].id

RECURSIVE EmittedInto(_, _)
\* the instructions emitted while block b was current, up to the n-th call
EmittedInto(b, n) ==
    IF n = 0 THEN <<>>
    ELSE IF bcalls[n].op = "instr" /\ CurrentAt(n) = b
    THEN Append(EmittedInto(b, n - 1), bcalls[n].kind)
    ELSE EmittedInto(b, n - 1)

\* C27: the function finish constructs has the entry block 0 of tag Main and
\* type () -> the function's returns, one block per new_block call whose id
\* is the call's ordinal with the tag and the returns given, in each block
\* exactly the instructions emitted while it was current, in emission order,
\* and as locals the arguments followed by the types of the new_local calls.
C27_BuiltFunction ==
    bphase = "finished" =>
       LET f == bmod[1]
           made == CallsOf("new_block")
           added == CallsOf("new_local")
       IN  /\ Len(bmod) = 1
           /\ DOMAIN f.blocks = 0..Len(made)
           /\ f.blocks[0].idx = 0 /\ f.blocks[0].tag = "Main"
           /\ f.blocks[0].block_ty = [args |-> <<>>, ret |-> bcalls[1].returns]
           /\ \A n \in 1..Len(made) :
                 /\ f.blocks[n].idx = n
                 /\ f.blocks[n].tag = made[n].tag
                 /\ f.blocks[n].block_ty = [args |-> <<>>, ret |-> made[n].returns]
           /\ \A b \in DOMAIN f.blocks :
                 /\ Len(f.blocks[b].body) = Len(EmittedInto(b, Len(bcalls)))
                 /\ \A p \in DOMAIN f.blocks[b].body :
                       f.blocks[b].body[p].kind = EmittedInto(b, Len(bcalls))[p]
           /\ Len(f.all_locals_types) = Len(bcalls[1].arguments) + Len(added)
           /\ \A p \in DOMAIN f.all_locals_types :
                 f.all_locals_types[p] =
                    IF p <= Len(bcalls[1].arguments) THEN bcalls[1].arguments[p]
                    ELSE added[p - Len(bcalls[1].arguments)].ty
           /\ f.ty = [args |-> bcalls[1].arguments, ret |-> bcalls[1].returns]

\* a function of two arguments was finished after a new_block, a switch to
\* the new block and an instruction emitted into it
C27_Witness ==
    /\ bphase = "finished" /\ Len(bcalls) = 4
    /\ Len(bcalls[1].arguments) = 2
    /\ bcalls[2].op = "new_block" /\ bcalls[2].tag = "Loop"
    /\ bcalls[3].op = "switch_block" /\ bcalls[3].id = 1
    /\ bcalls[4].op = "instr"
    /\ Len(bmod[1].blocks[1].body) = 1 /\ bmod[1].blocks[0].body = <<>>

\* ---------------------------------------------------------------------------
\* The pipeline on control flow (lib.rs 41-62): correction, control-flow
\* verification, type verification, emission.  The function the control-flow
\* verifier reads is one the correction pass has been through: nothing
\* follows a Break in a block (EndsInBreak).  The blocks are of the type
\* () -> (), and the instructions between the ones kept are well typed.
\* ---------------------------------------------------------------------------

\* The verifier's arm for Break, which verify.rs under src/ does not hold:
\* Break has no operands and no results, and no error of the type verifier
\* is about a Break.
VerifyBreak(st) == Cont(st, NoMeta)

\* verify.rs 28-30: the loop of verify_block over the Breaks of a body
BreaksVerified(body) ==
    \A i \in DOMAIN body : body[i].k = "Break" => VerifyBreak(<<>>).res = "Running"

\* lib.rs 46: do_mut_pass(&mut verify::Verifier{}).unwrap()
PipeVerify ==
    /\ cphase = "Verified" /\ vres = "idle"
    /\ IF \A b \in BlockIds : BreaksVerified(cbody[b])
       THEN /\ vres' = "Ok"
            /\ UNCHANGED <<vret, vblockret, vbody, vstack, vinfo, verr, vfunc,
                           numVars, cfVars, extVars>>
       ELSE /\ Unwind("Err", "Verifier") /\ UNCHANGED <<verVars, numVars>>

\* lib.rs 59-61: the emitter runs on what the three passes accepted
PipeEmit == vres = "Ok" /\ EmitFunc

PipeNext ==
    \/ CFEntryCheck
    \/ CFNextBlock
    \/ CFScanIfElse
    \/ CFScanLoop
    \/ CFScanOther
    \/ CFEndBody
    \/ CFCheckMain
    \/ CFDistBlock
    \/ CFWalk
    \/ CFVisitOk
    \/ CFMutate
    \/ PipeVerify
    \/ PipeEmit

SpecPipeline == CfInit /\ [][PipeNext]_vars

\* C30: in a function the three passes accepted every Break lies in a block
\* that carries innermost_loop_distance, and the emitter's lookup of it for a
\* Break never fails.
C30_BreakLookupNeverFails ==
    /\ (cphase = "Verified" /\ vres = "Ok") =>
          \A b \in BlockIds : \A i \in DOMAIN cbody[b] :
             cbody[b][i].k = "Break" => cmeta[b].innermost_loop_distance # Unset
    /\ ~(cphase = "Panic" /\ cerr = "retrieve_copied(innermost_loop_distance).unwrap()")

\* the emitter has panicked on a function the three passes accepted
C30_EmitterPanics ==
    ~(cphase = "Panic" /\ cerr = "retrieve_copied(innermost_loop_distance).unwrap()"
      /\ vres = "Ok")

====
